---- MODULE Spec2Model ----
(***************************************************************************)
(* League history viewer: the aggregation logic of the pages.              *)
(*   roll-of-honour/page.tsx   Season Aggregator (table, hallOfFame)       *)
(*   head-to-head/page.tsx     Head-to-Head Resolver (table, visibleTable) *)
(*   unnamed/part_000          Ownership Tracker (leaderboard)             *)
(*   record-breakers/page.tsx  Record-Breaker Normalizer                   *)
(*   league-finishes/page.tsx  Draft Board Grouper (DraftHistoryPage)      *)
(*   league-finishes/page.tsx  Champions and standings (ChampsRostersPage) *)
(*   parseCsv / parseCSV       Tabular Text Parser, on texts of characters *)
(* Each page is a state machine: its React state, changed by the load      *)
(* effects and the input handlers; the useMemo values are operators over   *)
(* that state.                                                             *)
(*                                                                         *)
(* Numbers.  A JS number parsed from text is [fin, h]: fin is               *)
(* Number.isFinite, h the value counted in halves (so 1.5 is h = 3).       *)
(* A quotient (avgFinish, winPct) is an exact fraction [n, d], d > 0,      *)
(* compared by cross-multiplication.                                       *)
(***************************************************************************)
EXTENDS Integers, Sequences, FiniteSets, TLC

VARIABLES
    rows,        \* roll-of-honour: useState<Row[]>([])
    err,         \* roll-of-honour: useState<string | null>(null)
    loading,     \* roll-of-honour: useState(false)
    h2hData,     \* roll-of-honour: useState<H2H | null>(null)
    rhFetch,     \* roll-of-honour: the two fetches, "pending" | "done"
    table,       \* roll-of-honour: useMemo(..., [rows, h2hData]) as last rendered
    hallOfFame,  \* roll-of-honour: useMemo(..., [table]) as last rendered
    data,        \* head-to-head: useState<H2H | null>(null)
    hhErr,       \* head-to-head: useState<string | null>(null)
    manager,     \* head-to-head: useState<string>("")
    hhTable,     \* head-to-head: table = useMemo(..., [data, manager]) as last rendered
    visibleTable,\* head-to-head: useMemo(..., [table, manager]) as last rendered
    txData,      \* ownership: useState<TxnFile | null>(null)
    draft,       \* ownership: useState<DraftRow[]>([])
    txErr,       \* ownership: useState<string | null>(null)
    txLoading,   \* ownership: useState<boolean>(false)
    query,       \* ownership: useState<string>("")
    minPickups,  \* ownership: useState<number>(2)
    adds,        \* ownership: data.rows.filter(...).sort(...) as the engine ordered it
    owned,       \* ownership: the values of map after the two loops of leaderboard
    leaderboard, \* ownership: useMemo(..., [data, draft, query, minPickups]) as last rendered
    recFetch,    \* record-breakers: the fetch of records.json, "pending" | "done" | "failed"
    recData,     \* record-breakers: data = useState<RecordsData | null>(null)
    mode,        \* record-breakers: useState<Mode>("all_time")
    recYear,     \* record-breakers: year = useState<string>("")
    allTimeSections,       \* record-breakers: useMemo(..., [data]) as last rendered
    seasonalSections,      \* record-breakers: useMemo(..., [data, mode, year]) as last rendered
    teamPointsExtraTables, \* record-breakers: useMemo(..., [data, mode, year]) as last rendered
    draftFiles,  \* draft-history: the draft CSV files the server holds, by season
    manifest,    \* draft-history: useState<Manifest | null>(null)
    dhYear,      \* draft-history: year = useState<number | null>(null)
    dhRows,      \* draft-history: rows = useState<Row[]>([])
    allRowsByYear, \* draft-history: useState<Record<number, Row[]>>({}), by season ascending
    dhLoading,   \* draft-history: loading = useState(false)
    dhErr,       \* draft-history: err = useState<string | null>(null)
    managerFilter, \* draft-history: useState<string>("")
    playerQuery, \* draft-history: useState("")
    dhFetch,     \* draft-history: the fetches in flight
    groupedByRoundSingle, \* draft-history: useMemo(..., [rows]) as last rendered
    managerRowsFlat,      \* draft-history: useMemo(..., [managerFilter, allRowsByYear])
    playerSearchResults,  \* draft-history: useMemo(..., [playerQuery, allRowsByYear])
    csvText,     \* parser: the text handed to parseCsv, a sequence of characters
    csvRows,     \* parser: what parseCsv returned for csvText
    csvDraft,    \* parser: what parseCSV returned for csvText
    csvCall,     \* parser: the function that has been applied to csvText
    champions,   \* league-finishes: useState<Champion[]>([])
    standings,   \* league-finishes: useState<SeasonStandings[]>([])
    selectedYear, \* league-finishes: useState<number | null>(null)
    crLoading,   \* league-finishes: loading = useState(true)
    crErr,       \* league-finishes: err = useState<string | null>(null)
    crFetch,     \* league-finishes: what became of the two files of the load effect
    crView       \* league-finishes: what the page renders

rhVars == <<rows, err, loading, h2hData, rhFetch, table, hallOfFame>>
hhVars == <<data, hhErr, manager, hhTable, visibleTable>>
txVars == <<txData, draft, txErr, txLoading, query, minPickups, adds, owned, leaderboard>>
recVars == <<recFetch, recData, mode, recYear, allTimeSections, seasonalSections,
             teamPointsExtraTables>>
dhVars == <<draftFiles, manifest, dhYear, dhRows, allRowsByYear, dhLoading, dhErr,
            managerFilter, playerQuery, dhFetch, groupedByRoundSingle, managerRowsFlat,
            playerSearchResults>>
csvVars == <<csvText, csvRows, csvDraft, csvCall>>
crVars == <<champions, standings, selectedYear, crLoading, crErr, crFetch, crView>>
otherVars == <<recVars, dhVars, csvVars, crVars>>
vars == <<rhVars, hhVars, txVars, otherVars>>

\* null of a useState<T | null>
Null == [isNull |-> TRUE]
\* an error message held in a useState<string | null>
Error(message) == [message |-> message]

-----------------------------------------------------------------------------
(* Bounds of the inputs *)

MaxRows == 3
MaxPairs == 2
MaxDraft == 2
MaxTxn == 3
MaxRecs == 2
MaxPicks == 3
MaxText == 5
MaxInflight == 2
MaxChamps == 2

RECURSIVE SeqsUpTo(_, _)
SeqsUpTo(S, n) ==
    IF n = 0 THEN {<<>>}
    ELSE LET shorter == SeqsUpTo(S, n - 1)
         IN  shorter \cup {Append(s, x) : s \in {t \in shorter : Len(t) = n - 1}, x \in S}

-----------------------------------------------------------------------------
(* Text and number primitives of the runtime, on the texts the inputs use *)

\* String.prototype.trim
Trim(s) ==
    CASE s = " " -> ""
      [] s = " Al" -> "Al"
      [] s = "Kane " -> "Kane"
      [] OTHER -> s

NaN == [fin |-> FALSE, h |-> 0]
Num(halves) == [fin |-> TRUE, h |-> halves]

\* Number(text): "" is 0, text that is no numeral is NaN
Number(s) ==
    CASE s = "" -> Num(0)
      [] s = "0" -> Num(0)
      [] s = "-1" -> Num(-2)
      [] s = "1" -> Num(2)
      [] s = "1.5" -> Num(3)
      [] s = "2" -> Num(4)
      [] s = "3" -> Num(6)
      [] s = "4" -> Num(8)
      [] s = "5" -> Num(10)
      [] s = "9000" -> Num(18000)
      [] s = "7" -> Num(14)
      [] s = "-3" -> Num(-6)
      [] s = "10" -> Num(20)
      [] s = "12" -> Num(24)
      [] s = "42" -> Num(84)
      [] s = "50" -> Num(100)
      [] s = "2023" -> Num(4046)
      [] s = "2024" -> Num(4048)
      [] OTHER -> NaN

\* String.prototype.toLowerCase
toLowerCase(s) ==
    CASE s = "Kane" -> "kane"
      [] s = "Al" -> "al"
      [] s = "Bo" -> "bo"
      [] s = "Cy" -> "cy"
      [] s = "AL" -> "al"
      [] s = "AL " -> "al "
      [] s = "Al All Time" -> "al all time"
      [] s = "AL  all time" -> "al  all time"
      [] s = "Bo All Time" -> "bo all time"
      [] s = "Most Wins" -> "most wins"
      [] s = "MOST WINS - Season 2024" -> "most wins - season 2024"
      [] s = "Least Team Points" -> "least team points"
      [] s = "Margin of Defeat" -> "margin of defeat"
      [] s = "Most Points From Draft Players" -> "most points from draft players"
      [] s = "Most Points From Waiver-Wire Pickups" -> "most points from waiver-wire pickups"
      [] s = "Record" -> "record"
      [] s = "Record Holder" -> "record holder"
      [] s = "Value" -> "value"
      [] s = "Team" -> "team"
      [] s = "Points" -> "points"
      [] s = "Mixon" -> "mixon"
      [] s = "Zed" -> "zed"
      [] s = "Ka" -> "ka"
      [] OTHER -> s

\* String.prototype.includes, on lower-case names, queries, titles and cells
includes(s, q) ==
    \/ q = ""
    \/ s = q
    \/ <<s, q>> \in {<<"kane", "ka">>, <<"kane", "an">>,
                     <<"al all time", "all time">>, <<"al  all time", "all time">>,
                     <<"bo all time", "all time">>,
                     <<"least team points", "least">>,
                     <<"least team points", "team points">>,
                     <<"most points from draft players", "most">>,
                     <<"most points from draft players", "points from draft players">>,
                     <<"most points from waiver-wire pickups", "most">>,
                     <<"most points from waiver-wire pickups",
                       "points from waiver-wire pickups">>,
                     <<"most wins", "most">>, <<"most wins", "win">>,
                     <<"most wins - season 2024", "most">>,
                     <<"most wins - season 2024", "win">>,
                     <<"record holder", "holder">>}

\* new Date(text).getTime(), in days; NaN for text that is no date
getTime(s) ==
    CASE s = "2025-09-01" -> [fin |-> TRUE, t |-> 1]
      [] s = "2025-09-08" -> [fin |-> TRUE, t |-> 8]
      [] OTHER -> [fin |-> FALSE, t |-> 0]

\* the orders in which the elements of s can be arranged
Arrangements(s) ==
    {[i \in 1..Len(s) |-> s[f[i]]] : f \in Permutations(1..Len(s))}

\* a.localeCompare(b) on the names used: < 0, 0 or > 0
NameRank(s) ==
    CASE s = "" -> 0
      [] s = "Al" -> 1
      [] s = "Bo" -> 2
      [] s = "Brendan" -> 3
      [] s = "Cy" -> 4
      [] s = "Kane" -> 5
      [] s = "Least Team Points" -> 6
      [] s = "Margin of Defeat" -> 7
      [] s = "Mixon" -> 8
      [] s = "Most Points From Draft Players" -> 9
      [] s = "Most Points From Waiver-Wire Pickups" -> 10
      [] s = "Most Wins" -> 11
      [] s = "MOST WINS - Season 2024" -> 12
      [] s = "Zed" -> 13
      [] OTHER -> 14

localeCompare(a, b) == NameRank(a) - NameRank(b)

\* exact fractions
Frac(n, d) == [n |-> n, d |-> d]
FracEq(x, y) == x.n * y.d = y.n * x.d
FracLt(x, y) == x.n * y.d < y.n * x.d
\* the sign of x - y
FracCmp(x, y) == x.n * y.d - y.n * x.d

\* Array.prototype.sort with a consistent comparator: the stable order.
\* lt[i, j] says the comparator puts s[i] strictly before s[j].
Sort(s, lt) ==
    LET n == Len(s)
        pos(i) == 1 + Cardinality({j \in 1..n : lt[j, i] \/ (~lt[i, j] /\ j < i)})
    IN  [k \in 1..n |-> s[CHOOSE i \in 1..n : pos(i) = k]]

\* the index of the first element of s in the set hits, 0 when none
First(hits) == IF hits = {} THEN 0 ELSE CHOOSE i \in hits : \A j \in hits : i <= j

-----------------------------------------------------------------------------
(* roll-of-honour/page.tsx: the Season Aggregator *)

\* the rows parseCsv yields for finishes.csv files: fields are trimmed text
FinishRows ==
    {[manager |-> "Al", season |-> s, place |-> p] :
        s \in {"2023", "2024"}, p \in {"1", "2", "3", "5"}}
    \cup {[manager |-> "Bo", season |-> "2023", place |-> p] : p \in {"1", "4", "5"}}
    \cup {[manager |-> "Al", season |-> "2023", place |-> p] :
            p \in {"", "x", "-1", "1.5", "9000"}}
    \cup {[manager |-> "", season |-> "2023", place |-> "1"],
          [manager |-> "Al", season |-> "", place |-> "1"],
          [manager |-> "Cy", season |-> "2023", place |-> "2"]}

FinishFiles == SeqsUpTo(FinishRows, MaxRows)

\* the guard of line 102: the row is skipped
SkipRow(r) ==
    LET mgr == Trim(r.manager)
        season == Trim(r.season)
        placeNum == Number(r.place)
    IN  \/ mgr = ""
        \/ season = ""
        \/ ~placeNum.fin
        \/ placeNum.h <= 0
        \/ placeNum.h >= 2 * 9000

NewTotals(mgr) ==
    [manager |-> mgr, seasons |-> 0, gold |-> 0, silver |-> 0, bronze |-> 0,
     podiums |-> 0, points |-> 0, avgFinish |-> Frac(0, 1), playoffsMade |-> 0,
     winPct |-> Frac(0, 1)]

\* Medal with third place worth as much as second
MedalBronzeTwo(t, placeNum) ==
    LET t1 == IF placeNum.h = 2 THEN [t EXCEPT !.gold = @ + 1, !.points = @ + 3]
              ELSE IF placeNum.h = 4 THEN [t EXCEPT !.silver = @ + 1, !.points = @ + 2]
              ELSE IF placeNum.h = 6 THEN [t EXCEPT !.bronze = @ + 1, !.points = @ + 2]
              ELSE t
    IN  [t1 EXCEPT !.podiums = t1.gold + t1.silver + t1.bronze]

\* Medal without the update of podiums
MedalPodiumsStale(t, placeNum) ==
    IF placeNum.h = 2 THEN [t EXCEPT !.gold = @ + 1, !.points = @ + 3]
    ELSE IF placeNum.h = 4 THEN [t EXCEPT !.silver = @ + 1, !.points = @ + 2]
    ELSE IF placeNum.h = 6 THEN [t EXCEPT !.bronze = @ + 1, !.points = @ + 1]
    ELSE t

\* lines 123-134: medals and points of one valid row
Medal(t, placeNum) ==
    LET t1 == IF placeNum.h = 2 THEN [t EXCEPT !.gold = @ + 1, !.points = @ + 3]
              ELSE IF placeNum.h = 4 THEN [t EXCEPT !.silver = @ + 1, !.points = @ + 2]
              ELSE IF placeNum.h = 6 THEN [t EXCEPT !.bronze = @ + 1, !.points = @ + 1]
              ELSE t
    IN  [t1 EXCEPT !.podiums = t1.gold + t1.silver + t1.bronze]

\* SetBest keeping the last place of the season instead of the lowest
SetBestLast(m, season, placeNum) ==
    LET i == First({k \in 1..Len(m) : m[k].season = season})
    IN  IF i = 0 THEN Append(m, [season |-> season, place |-> placeNum.h])
        ELSE [m EXCEPT ![i].place = placeNum.h]

\* lines 136-138: m is one manager's Map season -> best place, in insertion order
SetBest(m, season, placeNum) ==
    LET i == First({k \in 1..Len(m) : m[k].season = season})
    IN  IF i = 0 THEN Append(m, [season |-> season, place |-> placeNum.h])
        ELSE IF placeNum.h < m[i].place THEN [m EXCEPT ![i].place = placeNum.h]
        ELSE m

\* one pass of the loop of lines 97-139 over acc = [byMgr, bestByMgrSeason];
\* both Maps are sequences in insertion order, one element per manager
FoldRow(acc, r) ==
    IF SkipRow(r) THEN acc
    ELSE
        LET mgr == Trim(r.manager)
            season == Trim(r.season)
            placeNum == Number(r.place)
            has == \E k \in 1..Len(acc.byMgr) : acc.byMgr[k].manager = mgr
            acc1 == IF has THEN acc
                    ELSE [byMgr |-> Append(acc.byMgr, NewTotals(mgr)),
                          bestByMgrSeason |-> Append(acc.bestByMgrSeason, <<>>)]
            i == First({k \in 1..Len(acc1.byMgr) : acc1.byMgr[k].manager = mgr})
        IN  [byMgr |-> [acc1.byMgr EXCEPT ![i] = Medal(@, placeNum)],
             bestByMgrSeason |->
                [acc1.bestByMgrSeason EXCEPT ![i] = SetBest(@, season, placeNum)]]

RECURSIVE FoldRows(_, _)
FoldRows(rs, n) ==
    IF n = 0 THEN [byMgr |-> <<>>, bestByMgrSeason |-> <<>>]
    ELSE FoldRow(FoldRows(rs, n - 1), rs[n])

RECURSIVE SumPlaces(_, _)
SumPlaces(m, n) == IF n = 0 THEN 0 ELSE SumPlaces(m, n - 1) + m[n].place

\* lines 156-174: win percentage of mgr from h2h.json
RECURSIVE PairSums(_, _, _)
PairSums(pairs, n, mgr) ==
    IF n = 0 THEN [wins |-> 0, losses |-> 0, ties |-> 0]
    ELSE LET s == PairSums(pairs, n - 1, mgr)
             p == pairs[n]
         IN  IF p.a = mgr
             THEN [wins |-> s.wins + p.a_wins, losses |-> s.losses + p.b_wins,
                   ties |-> s.ties + p.ties]
             ELSE IF p.b = mgr
             THEN [wins |-> s.wins + p.b_wins, losses |-> s.losses + p.a_wins,
                   ties |-> s.ties + p.ties]
             ELSE s

\* (wins + 0.5 * ties) / games, 0 when games is 0
Pct(wins, losses, ties) ==
    LET games == wins + losses + ties
    IN  IF games # 0 THEN Frac(2 * wins + ties, 2 * games) ELSE Frac(0, 1)

MergedWinPct(mgr, h2h) ==
    IF h2h = Null THEN Frac(0, 1)
    ELSE LET s == PairSums(h2h.pairs, Len(h2h.pairs), mgr)
         IN  Pct(s.wins, s.losses, s.ties)

\* lines 142-176: the per-manager statistics
Finalize(t, seasonBest, h2h) ==
    LET n == Len(seasonBest)
    IN  [t EXCEPT
            !.seasons = n,
            !.avgFinish = IF n # 0 THEN Frac(SumPlaces(seasonBest, n), 2 * n)
                          ELSE Frac(0, 1),
            !.playoffsMade = Len(SelectSeq(seasonBest, LAMBDA e : e.place <= 2 * 4)),
            !.winPct = MergedWinPct(t.manager, h2h)]

\* CompareTotals without the avgFinish tie-break
CompareTotalsNoAvg(a, b) ==
    IF b.points # a.points THEN b.points - a.points
    ELSE IF b.gold # a.gold THEN b.gold - a.gold
    ELSE localeCompare(a.manager, b.manager)

\* CompareTotals with winPct as its first key
CompareTotalsByWinPct(a, b) ==
    IF ~FracEq(a.winPct, b.winPct) THEN FracCmp(b.winPct, a.winPct)
    ELSE IF b.points # a.points THEN b.points - a.points
    ELSE IF b.gold # a.gold THEN b.gold - a.gold
    ELSE IF ~FracEq(a.avgFinish, b.avgFinish) THEN FracCmp(a.avgFinish, b.avgFinish)
    ELSE localeCompare(a.manager, b.manager)

\* the comparator of lines 179-184
CompareTotals(a, b) ==
    IF b.points # a.points THEN b.points - a.points
    ELSE IF b.gold # a.gold THEN b.gold - a.gold
    ELSE IF ~FracEq(a.avgFinish, b.avgFinish) THEN FracCmp(a.avgFinish, b.avgFinish)
    ELSE localeCompare(a.manager, b.manager)

\* const table = useMemo(..., [rows, h2hData])
Table(rs, h2h) ==
    LET acc == FoldRows(rs, Len(rs))
        arr == [i \in 1..Len(acc.byMgr) |->
                    Finalize(acc.byMgr[i], acc.bestByMgrSeason[i], h2h)]
    IN  Sort(arr, [i \in DOMAIN arr, j \in DOMAIN arr |->
                        CompareTotals(arr[i], arr[j]) < 0])

\* the comparator of lines 195-199
CompareTitles(a, b) ==
    IF b.gold # a.gold THEN b.gold - a.gold
    ELSE IF b.points # a.points THEN b.points - a.points
    ELSE localeCompare(a.manager, b.manager)

\* Titles without its own sort: the filtered table in table order
TitlesTableOrder(tbl) == SelectSeq(tbl, LAMBDA t : t.gold > 0)

\* hallOfFame.titles
Titles(tbl) ==
    LET won == SelectSeq(tbl, LAMBDA t : t.gold > 0)
    IN  Sort(won, [i \in DOMAIN won, j \in DOMAIN won |->
                        CompareTitles(won[i], won[j]) < 0])

MIN_SEASONS_FOR_AVG == 3

CompareAvg(a, b) ==
    IF ~FracEq(a.avgFinish, b.avgFinish) THEN FracCmp(a.avgFinish, b.avgFinish)
    ELSE localeCompare(a.manager, b.manager)

\* hallOfFame.bestAvg
BestAvg(tbl) ==
    LET eligible == SelectSeq(tbl, LAMBDA t : t.seasons >= MIN_SEASONS_FOR_AVG)
        sorted == Sort(eligible, [i \in DOMAIN eligible, j \in DOMAIN eligible |->
                                    CompareAvg(eligible[i], eligible[j]) < 0])
    IN  SubSeq(sorted, 1, IF Len(sorted) < 5 THEN Len(sorted) ELSE 5)

\* const hallOfFame = useMemo(..., [table]), lines 190-210
HallOfFame(tbl) ==
    IF Len(tbl) = 0 THEN [titles |-> <<>>, bestAvg |-> <<>>]
    ELSE [titles |-> Titles(tbl), bestAvg |-> BestAvg(tbl)]

\* the h2h.json documents the roll-of-honour page is run on
RollH2H ==
    {[managers |-> <<"Al", "Bo">>,
      pairs |-> <<[a |-> "Al", b |-> "Bo", a_wins |-> 3, b_wins |-> 1, ties |-> 1,
                   a_points_for |-> 500, b_points_for |-> 400]>>],
     [managers |-> <<>>, pairs |-> <<>>]}

\* the finishes effect, lines 59-74, with a response that is ok
FinishesLoaded ==
    /\ rhFetch.finishes = "pending"
    /\ \E file \in FinishFiles : rows' = file
    /\ loading' = FALSE
    /\ rhFetch' = [rhFetch EXCEPT !.finishes = "done"]
    /\ table' = Table(rows', h2hData)
    /\ hallOfFame' = HallOfFame(table')
    /\ UNCHANGED <<err, h2hData, hhVars, txVars, otherVars>>

\* the h2h effect, lines 79-90, with a response that is ok
H2HLoaded ==
    /\ rhFetch.h2h = "pending"
    /\ \E json \in RollH2H : h2hData' = json
    /\ rhFetch' = [rhFetch EXCEPT !.h2h = "done"]
    /\ table' = Table(rows, h2hData')
    /\ hallOfFame' = HallOfFame(table')
    /\ UNCHANGED <<rows, err, loading, hhVars, txVars, otherVars>>

\* the pages that are not the page open
RecIdle ==
    /\ recFetch = "idle"
    /\ recData = Null
    /\ mode = "all_time"
    /\ recYear = ""
    /\ allTimeSections = <<>>
    /\ seasonalSections = <<>>
    /\ teamPointsExtraTables = <<>>
DhIdle ==
    /\ draftFiles = <<>>
    /\ manifest = Null
    /\ dhYear = 0
    /\ dhRows = <<>>
    /\ allRowsByYear = <<>>
    /\ dhLoading = FALSE
    /\ dhErr = Null
    /\ managerFilter = ""
    /\ playerQuery = ""
    /\ dhFetch = [manifest |-> "idle", all |-> "idle", season |-> <<>>]
    /\ groupedByRoundSingle = <<>>
    /\ managerRowsFlat = <<>>
    /\ playerSearchResults = <<>>
CsvIdle ==
    /\ csvText = <<>>
    /\ csvRows = <<>>
    /\ csvDraft = <<>>
    /\ csvCall = "none"
\* the league-finishes page is not mounted
CrIdle ==
    /\ champions = <<>>
    /\ standings = <<>>
    /\ selectedYear = 0
    /\ crLoading = FALSE
    /\ crErr = Null
    /\ crFetch = [rosters |-> "idle", standings |-> "idle"]
    /\ crView = [kind |-> "none"]
OthersIdle == RecIdle /\ DhIdle /\ CsvIdle /\ CrIdle
HhIdle ==
    /\ data = Null
    /\ hhErr = Null
    /\ manager = ""
    /\ hhTable = <<>>
    /\ visibleTable = <<>>
TxIdle ==
    /\ txData = Null
    /\ draft = <<>>
    /\ txErr = Null
    /\ txLoading = FALSE
    /\ query = ""
    /\ minPickups = 2
    /\ adds = <<>>
    /\ owned = <<>>
    /\ leaderboard = <<>>
RhIdle ==
    /\ rows = <<>>
    /\ err = Null
    /\ loading = TRUE
    /\ h2hData = Null
    /\ rhFetch = [finishes |-> "pending", h2h |-> "pending"]
    /\ table = <<>>
    /\ hallOfFame = [titles |-> <<>>, bestAvg |-> <<>>]

\* the roll-of-honour page when it is not the page open
RhIdleOff ==
    /\ rows = <<>>
    /\ err = Null
    /\ loading = FALSE
    /\ h2hData = Null
    /\ rhFetch = [finishes |-> "idle", h2h |-> "idle"]
    /\ table = <<>>
    /\ hallOfFame = [titles |-> <<>>, bestAvg |-> <<>>]

\* the roll-of-honour page after its first render: both effects have started
InitRoll == RhIdle /\ HhIdle /\ TxIdle /\ OthersIdle
NextRoll == FinishesLoaded \/ H2HLoaded
SpecRoll == InitRoll /\ [][NextRoll]_vars

-----------------------------------------------------------------------------
(* head-to-head/page.tsx: the Head-to-Head Resolver *)

\* Managers to hide from UI but include in stats
HIDDEN == {"Brendan"}

\* wins, losses and ties of a pair, with the points of both sides (in tenths)
PairStats ==
    {[a_wins |-> 3, b_wins |-> 1, ties |-> 1, a_points_for |-> 5005, b_points_for |-> 4000],
     [a_wins |-> 1, b_wins |-> 1, ties |-> 0, a_points_for |-> 2000, b_points_for |-> 3000],
     [a_wins |-> 0, b_wins |-> 0, ties |-> 0, a_points_for |-> 0, b_points_for |-> 0]}

PairNames ==
    {<<"Al", "Bo">>, <<"Bo", "Al">>, <<"Al", "Brendan">>, <<"Brendan", "Bo">>,
     <<"Al", "Zed">>, <<"Al", "Al">>}

Pairs ==
    {[a |-> n[1], b |-> n[2], a_wins |-> st.a_wins, b_wins |-> st.b_wins, ties |-> st.ties,
      a_points_for |-> st.a_points_for, b_points_for |-> st.b_points_for] :
        n \in PairNames, st \in PairStats}

Rosters == {<<"Al", "Bo", "Brendan">>, <<"Brendan", "Bo", "Al">>, <<"Brendan">>}

\* the h2h.json documents
H2HDocs == {[managers |-> r, pairs |-> ps] : r \in Rosters, ps \in SeqsUpTo(Pairs, MaxPairs)}

\* RowFor with the points of the b side not swapped
RowForPointsUnswapped(p, mgr) ==
    IF p.a = mgr
    THEN [opponent |-> p.b, wins |-> p.a_wins, losses |-> p.b_wins, ties |-> p.ties,
          pf |-> p.a_points_for, pa |-> p.b_points_for,
          winPct |-> Pct(p.a_wins, p.b_wins, p.ties)]
    ELSE [opponent |-> p.a, wins |-> p.b_wins, losses |-> p.a_wins, ties |-> p.ties,
          pf |-> p.a_points_for, pa |-> p.b_points_for,
          winPct |-> Pct(p.b_wins, p.a_wins, p.ties)]

\* lines 69-91: the row of a pair that names mgr, seen from mgr's side
RowFor(p, mgr) ==
    IF p.a = mgr
    THEN [opponent |-> p.b, wins |-> p.a_wins, losses |-> p.b_wins, ties |-> p.ties,
          pf |-> p.a_points_for, pa |-> p.b_points_for,
          winPct |-> Pct(p.a_wins, p.b_wins, p.ties)]
    ELSE [opponent |-> p.a, wins |-> p.b_wins, losses |-> p.a_wins, ties |-> p.ties,
          pf |-> p.b_points_for, pa |-> p.a_points_for,
          winPct |-> Pct(p.b_wins, p.a_wins, p.ties)]

\* the comparator of lines 94-100
CompareRows(a, b) ==
    IF ~FracEq(b.winPct, a.winPct) THEN FracCmp(b.winPct, a.winPct)
    ELSE LET gA == a.wins + a.losses + a.ties
             gB == b.wins + b.losses + b.ties
         IN  IF gB # gA THEN gB - gA
             ELSE localeCompare(a.opponent, b.opponent)

\* const table = useMemo(..., [data, manager]), lines 63-103
H2HTable(d, mgr) ==
    IF d = Null \/ mgr = "" THEN <<>>
    ELSE
        LET oppSet == {d.managers[i] : i \in DOMAIN d.managers} \ {mgr}
            kept == SelectSeq(d.pairs,
                        LAMBDA p : \/ p.a = mgr /\ p.b \in oppSet
                                   \/ p.a # mgr /\ p.b = mgr /\ p.a \in oppSet)
            rs == [i \in DOMAIN kept |-> RowFor(kept[i], mgr)]
        IN  Sort(rs, [i \in DOMAIN rs, j \in DOMAIN rs |-> CompareRows(rs[i], rs[j]) < 0])

\* const visibleTable = useMemo(..., [table, manager]), lines 106-109
VisibleTable(tbl, mgr) ==
    IF mgr = "" THEN <<>> ELSE SelectSeq(tbl, LAMBDA r : r.opponent \notin HIDDEN)

RECURSIVE SumRows(_, _)
SumRows(tbl, n) ==
    IF n = 0 THEN [totW |-> 0, totL |-> 0, totT |-> 0, pf |-> 0, pa |-> 0]
    ELSE LET s == SumRows(tbl, n - 1)
             r == tbl[n]
         IN  [totW |-> s.totW + r.wins, totL |-> s.totL + r.losses, totT |-> s.totT + r.ties,
              pf |-> s.pf + r.pf, pa |-> s.pa + r.pa]

\* the totals summary of lines 190-213 over the rows tbl; shown only for rows
Summary(tbl) ==
    LET s == SumRows(tbl, Len(tbl))
    IN  [shown |-> Len(tbl) > 0, totW |-> s.totW, totL |-> s.totL, totT |-> s.totT,
         pf |-> s.pf, pa |-> s.pa, wp |-> Pct(s.totW, s.totL, s.totT)]

\* the summary taken over the rendered rows only
OverallOfVisible == Summary(visibleTable)

\* the summary the page renders: computed from the full table
Overall == Summary(hhTable)

\* FirstVisible without the test of HIDDEN
FirstOfRoster(managers) == IF Len(managers) = 0 THEN "" ELSE managers[1]

\* the first roster manager that is not hidden, "" when there is none
FirstVisible(managers) ==
    LET i == First({k \in DOMAIN managers : managers[k] \notin HIDDEN})
    IN  IF i = 0 THEN "" ELSE managers[i]

\* the load effect, lines 39-51, with a response that is ok; the effect runs once
\* and its closure holds the manager of the first render, ""
HhLoaded ==
    /\ data = Null /\ hhErr = Null
    /\ \E json \in H2HDocs :
        /\ data' = json
        /\ manager' = IF Len(json.managers) # 0 /\ FirstVisible(json.managers) # ""
                      THEN FirstVisible(json.managers)
                      ELSE manager
    /\ hhTable' = H2HTable(data', manager')
    /\ visibleTable' = VisibleTable(hhTable', manager')
    /\ UNCHANGED <<hhErr, rhVars, txVars, otherVars>>

\* the load effect, lines 52-56: the fetch or the parse failed
HhLoadFailed ==
    /\ data = Null /\ hhErr = Null
    /\ hhErr' = Error("Failed to load h2h.json")
    /\ UNCHANGED <<data, manager, hhTable, visibleTable, rhVars, txVars, otherVars>>

\* the selector of lines 167-179: rendered once data is there and no error is
SelectManager ==
    /\ data # Null /\ hhErr = Null
    /\ \E k \in DOMAIN data.managers :
        /\ data.managers[k] \notin HIDDEN
        /\ manager' = data.managers[k]
    /\ hhTable' = H2HTable(data, manager')
    /\ visibleTable' = VisibleTable(hhTable', manager')
    /\ UNCHANGED <<data, hhErr, rhVars, txVars, otherVars>>

InitH2H == RhIdleOff /\ HhIdle /\ TxIdle /\ OthersIdle
NextH2H == HhLoaded \/ HhLoadFailed \/ SelectManager
SpecH2H == InitH2H /\ [][NextH2H]_vars

-----------------------------------------------------------------------------
(* unnamed/part_000: the Ownership Tracker *)

\* the rows parseCSV yields for draft_results files: cells are trimmed text
DraftRows ==
    {[player |-> "Kane", position |-> "RB", nfl |-> "KC", manager |-> "Al"],
     [player |-> "Kane", position |-> "", nfl |-> "", manager |-> "Bo"],
     [player |-> "Kane", position |-> "RB", nfl |-> "", manager |-> ""]}

\* transaction events as the JSON holds them: text is not trimmed
Txn(date, type, player, to_team, note) ==
    [date |-> date, type |-> type, player |-> player, position |-> "RB", nfl |-> "SF",
     to_team |-> to_team, note |-> note]

TxnRows ==
    {Txn("2025-09-08", "add", "Kane", "Bo", ""),
     Txn("2025-09-01", "add", "Kane", "Al", "Trade"),
     Txn("2025-09-01", "add", "Kane ", " Al", "trade"),
     Txn("2025-09-01", "drop", "Kane", "Bo", ""),
     Txn("2025-09-01", "add", "Kane", " ", ""),
     Txn("2025-09-01", "add", " ", "Al", ""),
     Txn("", "add", "Kane", "Cy", "")}

DraftFiles == SeqsUpTo(DraftRows, MaxDraft)
TxnFiles == {[rows |-> rs] : rs \in SeqsUpTo(TxnRows, MaxTxn)}

NewMapVal(key, position, nfl) ==
    [player |-> key, position |-> position, nfl |-> nfl, drafted |-> 0, adds |-> 0,
     total |-> 0, owned |-> <<>>]

\* map.get(key) ?? { ... }, then map.set(key, existing): the entry's index in the
\* insertion order of map
Upsert(map, key, position, nfl) ==
    IF \E k \in DOMAIN map : map[k].player = key THEN map
    ELSE Append(map, NewMapVal(key, position, nfl))

IndexOf(map, key) == First({k \in DOMAIN map : map[k].player = key})

\* a || b || "" on text
OrText(a, b) == IF a # "" THEN a ELSE b

\* DraftStep recording an owner also for a row without manager
DraftStepAlwaysOwner(map, d) ==
    LET key == Trim(d.player)
    IN  IF key = "" THEN map
        ELSE
            LET map1 == Upsert(map, key, d.position, d.nfl)
                i == IndexOf(map1, key)
                x == map1[i]
                y == [x EXCEPT !.drafted = @ + 1,
                               !.total = @ + 1,
                               !.position = OrText(@, d.position),
                               !.nfl = OrText(@, d.nfl),
                               !.owned = <<[team |-> Trim(d.manager), type |-> "drafted"]>> \o @]
            IN  [map1 EXCEPT ![i] = y]

\* lines 120-140: one draft row
DraftStep(map, d) ==
    LET key == Trim(d.player)
    IN  IF key = "" THEN map
        ELSE
            LET map1 == Upsert(map, key, d.position, d.nfl)
                i == IndexOf(map1, key)
                x == map1[i]
                y == [x EXCEPT !.drafted = @ + 1,
                               !.total = @ + 1,
                               !.position = OrText(@, d.position),
                               !.nfl = OrText(@, d.nfl),
                               !.owned = IF Trim(d.manager) # ""
                                         THEN <<[team |-> Trim(d.manager), type |-> "drafted"]>>
                                                \o @
                                         ELSE @]
            IN  [map1 EXCEPT ![i] = y]

\* AddStep putting the new owner at the front
AddStepUnshift(map, r) ==
    LET key == Trim(r.player)
    IN  IF key = "" THEN map
        ELSE
            LET map1 == Upsert(map, key, r.position, r.nfl)
                i == IndexOf(map1, key)
                x == map1[i]
                type == IF r.note = "Trade" THEN "trade" ELSE "waiver"
                y == [x EXCEPT !.adds = @ + 1,
                               !.total = @ + 1,
                               !.position = OrText(@, r.position),
                               !.nfl = OrText(@, r.nfl),
                               !.owned = <<[team |-> Trim(r.to_team), type |-> type]>> \o @]
            IN  [map1 EXCEPT ![i] = y]

\* lines 147-168: one add event
AddStep(map, r) ==
    LET key == Trim(r.player)
    IN  IF key = "" THEN map
        ELSE
            LET map1 == Upsert(map, key, r.position, r.nfl)
                i == IndexOf(map1, key)
                x == map1[i]
                type == IF r.note = "Trade" THEN "trade" ELSE "waiver"
                y == [x EXCEPT !.adds = @ + 1,
                               !.total = @ + 1,
                               !.position = OrText(@, r.position),
                               !.nfl = OrText(@, r.nfl),
                               !.owned = Append(@, [team |-> Trim(r.to_team), type |-> type])]
            IN  [map1 EXCEPT ![i] = y]

RECURSIVE FoldDraft(_, _)
FoldDraft(ds, n) == IF n = 0 THEN <<>> ELSE DraftStep(FoldDraft(ds, n - 1), ds[n])

RECURSIVE FoldAdds(_, _, _)
FoldAdds(map, as, n) == IF n = 0 THEN map ELSE AddStep(FoldAdds(map, as, n - 1), as[n])

\* IsAdd without the test of the event type
IsAddAnyType(r) == r.player # "" /\ Trim(r.to_team) # ""

\* the filter of line 144
IsAdd(r) == r.player # "" /\ r.type = "add" /\ Trim(r.to_team) # ""

\* the comparator of line 145 says a comes strictly before b; a difference with
\* NaN is NaN, which sort takes as 0
AddsBefore(a, b) ==
    /\ getTime(a.date).fin /\ getTime(b.date).fin
    /\ getTime(a.date).t - getTime(b.date).t < 0

\* lines 143-145: the filtered events sorted by date.  With a date that does not
\* parse the comparator is not consistent and the order is implementation-defined.
SortedAdds(rs) ==
    LET fs == SelectSeq(rs, IsAdd)
    IN  IF \A i \in DOMAIN fs : getTime(fs[i].date).fin
        THEN {Sort(fs, [i \in DOMAIN fs, j \in DOMAIN fs |-> AddsBefore(fs[i], fs[j])])}
        ELSE Arrangements(fs)

\* lines 117-168: the values of map, in insertion order
Owned(ds, as) == FoldAdds(FoldDraft(ds, Len(ds)), as, Len(as))

\* the comparator of line 178
CompareEntries(a, b) ==
    IF b.total - a.total # 0 THEN b.total - a.total ELSE localeCompare(a.player, b.player)

\* the query filter of lines 172-177
Matches(x, q) ==
    \/ Trim(q) = ""
    \/ includes(toLowerCase(x.player), toLowerCase(q))
    \/ \E i \in DOMAIN x.owned : includes(toLowerCase(x.owned[i].team), toLowerCase(q))

\* lines 170-178
Leaderboard(d, map, q, min) ==
    IF d = Null THEN <<>>
    ELSE
        LET kept == SelectSeq(map, LAMBDA x : x.total >= min /\ Matches(x, q))
        IN  Sort(kept, [i \in DOMAIN kept, j \in DOMAIN kept |->
                            CompareEntries(kept[i], kept[j]) < 0])

\* the load effect, lines 73-102: both responses are ok
TxLoaded ==
    /\ txLoading
    /\ \E txJson \in TxnFiles, draftRows \in DraftFiles :
        /\ txData' = txJson
        /\ draft' = draftRows
    /\ adds' \in SortedAdds(txData'.rows)
    /\ owned' = Owned(draft', adds')
    /\ leaderboard' = Leaderboard(txData', owned', query, minPickups)
    /\ txLoading' = FALSE
    /\ UNCHANGED <<txErr, query, minPickups, rhVars, hhVars, otherVars>>

\* the load effect: the transactions are ok, the draft response is not (line 89)
TxLoadedNoDraft ==
    /\ txLoading
    /\ \E txJson \in TxnFiles : txData' = txJson
    /\ draft' = <<>>
    /\ adds' \in SortedAdds(txData'.rows)
    /\ owned' = Owned(draft', adds')
    /\ leaderboard' = Leaderboard(txData', owned', query, minPickups)
    /\ txLoading' = FALSE
    /\ UNCHANGED <<txErr, query, minPickups, rhVars, hhVars, otherVars>>

\* the load effect: the transactions response is not ok, or a fetch or parse throws
TxLoadFailed ==
    /\ txLoading
    /\ \E m \in {"Failed to load waiver transactions", "Failed to load data"} :
            txErr' = Error(m)
    /\ txLoading' = FALSE
    /\ UNCHANGED <<txData, draft, query, minPickups, adds, owned, leaderboard,
                   rhVars, hhVars, otherVars>>

\* the ownership page after its first render: the load effect has started
TxStarted ==
    /\ txData = Null
    /\ draft = <<>>
    /\ txErr = Null
    /\ txLoading = TRUE
    /\ query = ""
    /\ minPickups = 2
    /\ adds = <<>>
    /\ owned = <<>>
    /\ leaderboard = <<>>

\* Number(e.target.value) || 2 without Math.max(2, ...)
MinTotalUnclamped(value) ==
    LET n == Number(value)
    IN  IF ~n.fin \/ n.h = 0 THEN 2 ELSE n.h \div 2

\* Math.max(2, Number(e.target.value) || 2) (line 223): NaN and 0 are falsy;
\* the typed values used give a whole number
MinTotalOf(value) ==
    LET n == Number(value)
        orTwo == IF ~n.fin \/ n.h = 0 THEN Num(4) ELSE n
    IN  IF orTwo.h <= 4 THEN 2 ELSE orTwo.h \div 2

\* values of the min-total input and of the search input
TypedTotals == {"", "x", "0", "1", "-3", "1.5", "3"}
TypedQueries == {"", "Ka", "Al"}

\* onChange of the min-total input (lines 222-224); the leaderboard memo
\* depends on minPickups (line 179)
SetMinPickups ==
    /\ \E value \in TypedTotals : minPickups' = MinTotalOf(value)
    /\ leaderboard' = Leaderboard(txData, owned, query, minPickups')
    /\ UNCHANGED <<txData, draft, txErr, txLoading, query, adds, owned,
                   rhVars, hhVars, otherVars>>

\* onChange of the search input (line 213)
SetQuery ==
    /\ \E value \in TypedQueries : query' = value
    /\ leaderboard' = Leaderboard(txData, owned, query', minPickups)
    /\ UNCHANGED <<txData, draft, txErr, txLoading, minPickups, adds, owned,
                   rhVars, hhVars, otherVars>>

\* files of a season with three players
LeaderDraftRows ==
    {[player |-> "Kane", position |-> "RB", nfl |-> "KC", manager |-> "Al"],
     [player |-> "Mixon", position |-> "RB", nfl |-> "CIN", manager |-> "Bo"]}

LeaderTxnRows ==
    {Txn("2025-09-01", "add", "Kane", "Bo", ""),
     Txn("2025-09-08", "add", "Mixon", "Al", ""),
     Txn("2025-09-01", "add", "Zed", "Cy", ""),
     Txn("2025-09-08", "add", "Zed", "Al", "")}

LeaderDraftFiles == SeqsUpTo(LeaderDraftRows, MaxDraft)
LeaderTxnFiles == {[rows |-> rs] : rs \in SeqsUpTo(LeaderTxnRows, MaxTxn)}

\* the load effect (lines 73-102) on the files of the three players
TxLoadedLeaders ==
    /\ txLoading
    /\ \E txJson \in LeaderTxnFiles, draftRows \in LeaderDraftFiles :
        /\ txData' = txJson
        /\ draft' = draftRows
    /\ adds' \in SortedAdds(txData'.rows)
    /\ owned' = Owned(draft', adds')
    /\ leaderboard' = Leaderboard(txData', owned', query, minPickups)
    /\ txLoading' = FALSE
    /\ UNCHANGED <<txErr, query, minPickups, rhVars, hhVars, otherVars>>

InitOwn == RhIdleOff /\ HhIdle /\ TxStarted /\ OthersIdle
NextOwn == TxLoaded \/ TxLoadedNoDraft \/ TxLoadFailed
SpecOwn == InitOwn /\ [][NextOwn]_vars

NextLeaders == TxLoadedLeaders \/ SetMinPickups \/ SetQuery
SpecLeaders == InitOwn /\ [][NextLeaders]_vars

-----------------------------------------------------------------------------
(* Season Aggregator: properties *)

RECURSIVE SetSum(_, _)
SetSum(f, S) ==
    IF S = {} THEN 0
    ELSE LET x == CHOOSE x \in S : TRUE IN f[x] + SetSum(f, S \ {x})

\* a valid finish record: non-empty manager and season, place in (0, 9000)
ValidFinish(r) ==
    /\ r.manager # ""
    /\ r.season # ""
    /\ Number(r.place).fin
    /\ Number(r.place).h > 0
    /\ Number(r.place).h < 2 * 9000

\* the indices of the valid rows of manager m
ValidOf(m) == {k \in 1..Len(rows) : ValidFinish(rows[k]) /\ rows[k].manager = m}
\* how many valid rows of m have the whole-number place p
PlaceCount(m, p) == Cardinality({k \in ValidOf(m) : Number(rows[k].place).h = 2 * p})

\* C1: gold, silver and bronze of every manager of the table are the numbers of
\* the manager's valid rows with place 1, 2 and 3, counted over every valid row
\* (several of one season too), and points = 3*gold + 2*silver + bronze.
C1_MedalsAndPoints ==
    \A i \in DOMAIN table :
        LET t == table[i]
        IN  /\ t.gold = PlaceCount(t.manager, 1)
            /\ t.silver = PlaceCount(t.manager, 2)
            /\ t.bronze = PlaceCount(t.manager, 3)
            /\ t.points = 3 * PlaceCount(t.manager, 1) + 2 * PlaceCount(t.manager, 2)
                            + PlaceCount(t.manager, 3)

\* a manager with a bronze and a place off the podium, both in one season
C1_Witness ==
    \E i \in DOMAIN table :
        /\ table[i].bronze = 1
        /\ table[i].seasons = 1
        /\ Cardinality(ValidOf(table[i].manager)) >= 2
        /\ table[i].points = 1

\* the seasons of m's valid rows, and the lowest place (in halves) of each
SeasonsOf(m) == {rows[k].season : k \in ValidOf(m)}
LowestOf(m, s) ==
    LET ps == {Number(rows[k].place).h : k \in {j \in ValidOf(m) : rows[j].season = s}}
    IN  CHOOSE p \in ps : \A q \in ps : p <= q

\* C2: only the lowest place of a season counts: seasons is the number of
\* distinct seasons with a valid row, avgFinish * seasons the sum of the lowest
\* places of those seasons, playoffsMade the number of those seasons whose
\* lowest place is <= 4, whatever the order of the rows.
C2_BestOfSeason ==
    \A i \in DOMAIN table :
        LET t == table[i]
            S == SeasonsOf(t.manager)
            low == [s \in S |-> LowestOf(t.manager, s)]
        IN  /\ t.seasons = Cardinality(S)
            /\ 2 * t.avgFinish.n * t.seasons = SetSum(low, S) * t.avgFinish.d
            /\ t.playoffsMade = Cardinality({s \in S : low[s] <= 2 * 4})

\* a season with two valid rows of one manager, the later one the lower place,
\* and a second season
C2_Witness ==
    \E k, l \in 1..Len(rows) :
        /\ k < l
        /\ ValidFinish(rows[k]) /\ ValidFinish(rows[l])
        /\ rows[k].manager = rows[l].manager
        /\ rows[k].season = rows[l].season
        /\ Number(rows[l].place).h < Number(rows[k].place).h
        /\ Cardinality(SeasonsOf(rows[k].manager)) = 2

\* the rows C3 says are counted: a valid row whose place is a whole number
WholePlace(r) == ValidFinish(r) /\ Number(r.place).h % 2 = 0

\* C3: a row is counted only if its place is a finite positive whole number
\* below 9000; every other row changes no totals and creates no entry, so the
\* table is the table of the whole-place rows alone.
C3_OnlyWholePlacesCounted ==
    table = Table(SelectSeq(rows, WholePlace), h2hData)

\* the position of manager m in the table, 0 when absent
TablePos(m) == First({i \in DOMAIN table : table[i].manager = m})

\* x is ranked before y: points desc, gold desc, avgFinish asc, name
RankedBefore(x, y) ==
    \/ x.points > y.points
    \/ x.points = y.points /\ x.gold > y.gold
    \/ x.points = y.points /\ x.gold = y.gold /\ FracLt(x.avgFinish, y.avgFinish)
    \/ /\ x.points = y.points /\ x.gold = y.gold
       /\ FracEq(x.avgFinish, y.avgFinish)
       /\ NameRank(x.manager) < NameRank(y.manager)

\* C4: consecutive managers of the table are in rank order, and every manager
\* with a valid row appears exactly once.
C4_TableOrdered ==
    /\ \A i \in 1..(Len(table) - 1) : RankedBefore(table[i], table[i + 1])
    /\ \A k \in 1..Len(rows) :
            ValidFinish(rows[k]) =>
                Cardinality({i \in DOMAIN table : table[i].manager = rows[k].manager}) = 1
    /\ \A i \in DOMAIN table : ValidOf(table[i].manager) # {}

\* three managers, two neighbours tied on points and gold and ordered by
\* avgFinish against their names
C4_Witness ==
    /\ Len(table) = 3
    /\ \E i \in 1..2 :
            /\ table[i].points = table[i + 1].points
            /\ table[i].gold = table[i + 1].gold
            /\ NameRank(table[i].manager) > NameRank(table[i + 1].manager)

\* the position of manager m among the title holders, 0 when absent
TitlePos(m) == First({i \in DOMAIN hallOfFame.titles : hallOfFame.titles[i].manager = m})

TitleHoldersAreChampions ==
    /\ \A i \in DOMAIN table : (table[i].gold > 0) <=> (TitlePos(table[i].manager) # 0)
    /\ \A i, j \in DOMAIN hallOfFame.titles :
            hallOfFame.titles[i].manager = hallOfFame.titles[j].manager => i = j
    /\ \A i \in DOMAIN hallOfFame.titles : TablePos(hallOfFame.titles[i].manager) # 0

\* C5 as stated: the title holders are the managers with gold > 0, in the same
\* relative order as in the table.
C5_TitlesInTableOrder ==
    /\ TitleHoldersAreChampions
    /\ \A i, j \in DOMAIN hallOfFame.titles :
            i < j => TablePos(hallOfFame.titles[i].manager)
                        < TablePos(hallOfFame.titles[j].manager)

\* C5 amended: the title holders are the managers with gold > 0, ordered by gold
\* descending, then points descending, then name; avgFinish plays no part.
C5_TitlesByGoldFirst ==
    /\ TitleHoldersAreChampions
    /\ \A i \in 1..(Len(hallOfFame.titles) - 1) :
            LET x == hallOfFame.titles[i]
                y == hallOfFame.titles[i + 1]
            IN  \/ x.gold > y.gold
                \/ x.gold = y.gold /\ x.points > y.points
                \/ /\ x.gold = y.gold /\ x.points = y.points
                   /\ NameRank(x.manager) < NameRank(y.manager)

\* two title holders whose order among the title holders is not their table order
C5_Witness ==
    \E i, j \in DOMAIN hallOfFame.titles :
        /\ i < j
        /\ TablePos(hallOfFame.titles[i].manager) > TablePos(hallOfFame.titles[j].manager)

-----------------------------------------------------------------------------
(* Head-to-Head Resolver: properties *)

\* the page shows a manager's records
Resolved == data # Null /\ manager # ""

\* C6: the winPct merged into a manager's career totals equals the overall win
\* percentage the head-to-head page computes for that manager from the same
\* document.
C6_MergedWinPctIsOverall ==
    Resolved => FracEq(MergedWinPct(manager, data), Overall.wp)

\* the roster of the document, as a set
Roster == {data.managers[i] : i \in DOMAIN data.managers}

\* the pairs (by index) that yield a row: the manager on one side, on the other
\* a roster manager other than the manager
RowPairs ==
    {k \in DOMAIN data.pairs :
        LET p == data.pairs[k]
        IN  \/ p.a = manager /\ p.b \in Roster \ {manager}
            \/ p.b = manager /\ p.a \in Roster \ {manager}}

\* row r is pair p seen from manager m, with the win percentage of the formula
Oriented(r, p, m) ==
    LET games == r.wins + r.losses + r.ties
    IN  /\ \/ /\ m = p.a
              /\ r.opponent = p.b
              /\ <<r.wins, r.losses, r.pf, r.pa>>
                    = <<p.a_wins, p.b_wins, p.a_points_for, p.b_points_for>>
           \/ /\ m = p.b /\ m # p.a
              /\ r.opponent = p.a
              /\ <<r.wins, r.losses, r.pf, r.pa>>
                    = <<p.b_wins, p.a_wins, p.b_points_for, p.a_points_for>>
        /\ r.ties = p.ties
        /\ IF games = 0 THEN r.winPct.n = 0
           ELSE 2 * games * r.winPct.n = (2 * r.wins + r.ties) * r.winPct.d

\* C7: every row is its pair record seen from the manager's side: a-side fields
\* as wins and points-for when the manager is a, b-side fields when the manager
\* is b, ties unchanged, winPct = (wins + 0.5*ties) / games, and 0 for no games.
C7_Orientation ==
    Resolved =>
        /\ Len(hhTable) = Cardinality(RowPairs)
        /\ \A i \in DOMAIN hhTable :
                \E k \in RowPairs : Oriented(hhTable[i], data.pairs[k], manager)
        /\ \A k \in RowPairs :
                \E i \in DOMAIN hhTable : Oriented(hhTable[i], data.pairs[k], manager)

\* the manager is the b side of {a_wins: 3, b_wins: 1, ties: 1}: 1-3-1, 0.3,
\* together with a row of no games
C7_Witness ==
    /\ Resolved
    /\ \E i \in DOMAIN hhTable :
            /\ hhTable[i].wins = 1 /\ hhTable[i].losses = 3 /\ hhTable[i].ties = 1
            /\ hhTable[i].pf = 4000 /\ hhTable[i].pa = 5005
            /\ hhTable[i].winPct = Frac(3, 10)
    /\ \E k \in RowPairs : data.pairs[k].b = manager
    /\ \E i \in DOMAIN hhTable : hhTable[i].wins + hhTable[i].losses + hhTable[i].ties = 0

\* field f of pair k seen from the manager's side (f of the a side)
Mine(k, fa, fb) == IF data.pairs[k].a = manager THEN data.pairs[k][fa] ELSE data.pairs[k][fb]
Opponent(k) == IF data.pairs[k].a = manager THEN data.pairs[k].b ELSE data.pairs[k].a

\* C8: a hidden opponent is in no rendered row, but its wins, losses, ties and
\* points are in the overall summary; an opponent outside the roster is in
\* neither the rows nor the summary.
C8_HiddenCountedNotShown ==
    Resolved =>
        /\ \A i \in DOMAIN visibleTable : visibleTable[i].opponent \notin HIDDEN
        /\ \A i \in DOMAIN hhTable : hhTable[i].opponent \in Roster
        /\ \A k \in RowPairs :
                Opponent(k) \notin HIDDEN =>
                    \E i \in DOMAIN visibleTable : visibleTable[i].opponent = Opponent(k)
        /\ Overall.totW = SetSum([k \in RowPairs |-> Mine(k, "a_wins", "b_wins")], RowPairs)
        /\ Overall.totL = SetSum([k \in RowPairs |-> Mine(k, "b_wins", "a_wins")], RowPairs)
        /\ Overall.totT = SetSum([k \in RowPairs |-> data.pairs[k].ties], RowPairs)
        /\ Overall.pf = SetSum([k \in RowPairs |-> Mine(k, "a_points_for", "b_points_for")],
                               RowPairs)
        /\ Overall.pa = SetSum([k \in RowPairs |-> Mine(k, "b_points_for", "a_points_for")],
                               RowPairs)

\* the manager has played a hidden roster member and someone outside the roster:
\* no row is rendered, the summary holds the hidden opponent's games alone
C8_Witness ==
    /\ Resolved
    /\ Len(visibleTable) = 0
    /\ Len(hhTable) = 1
    /\ hhTable[1].opponent \in HIDDEN
    /\ Overall.totW = 3
    /\ \E k \in DOMAIN data.pairs :
            /\ data.pairs[k].a = manager
            /\ data.pairs[k].b \notin Roster
            /\ data.pairs[k].a_wins = 3

-----------------------------------------------------------------------------
(* Ownership Tracker: properties *)

\* the page has built the ownership entries from a loaded transaction file
Tracked == txData # Null

\* the draft rows (by index) of player key, and those that record a manager
DraftOf(key) == {k \in DOMAIN draft : draft[k].player = key}
DraftWithManager(key) == {k \in DraftOf(key) : draft[k].manager # ""}

\* the counted add events (by index in the file) of player key: type exactly
\* "add", player key after trimming, destination team non-empty after trimming
CountedOf(key) ==
    {k \in DOMAIN txData.rows :
        /\ txData.rows[k].type = "add"
        /\ Trim(txData.rows[k].player) = key
        /\ Trim(txData.rows[k].to_team) # ""}

\* the owner an add event appends
OwnerOf(k) ==
    [team |-> Trim(txData.rows[k].to_team),
     type |-> IF txData.rows[k].note = "Trade" THEN "trade" ELSE "waiver"]
DraftOwner(k) == [team |-> draft[k].manager, type |-> "drafted"]

\* event j is before event k: earlier date, or the same date and earlier in the file
Earlier(j, k) ==
    LET tj == getTime(txData.rows[j].date).t
        tk == getTime(txData.rows[k].date).t
    IN  tj < tk \/ (tj = tk /\ j < k)

\* the counted events of key in ascending date order, equal dates in file order
Chronological(key) ==
    LET C == CountedOf(key)
        rank(k) == 1 + Cardinality({j \in C : Earlier(j, k)})
    IN  [n \in 1..Cardinality(C) |-> OwnerOf(CHOOSE k \in C : rank(k) = n)]

\* the managers of the draft rows of key, the latest row first
DraftedLatestFirst(key) ==
    LET D == DraftWithManager(key)
        rank(k) == 1 + Cardinality({j \in D : j > k})
    IN  [n \in 1..Cardinality(D) |-> DraftOwner(CHOOSE k \in D : rank(k) = n)]

\* the drafting manager, if the player was drafted with a recorded manager
TheDrafter(key) ==
    LET D == DraftWithManager(key)
    IN  IF D = {} THEN <<>> ELSE <<DraftOwner(CHOOSE k \in D : \A j \in D : k <= j)>>

\* every event the filter passes has a date that parses
DatesParse == \A k \in DOMAIN txData.rows : IsAdd(txData.rows[k]) => getTime(txData.rows[k].date).fin

\* how often owner o occurs in the sequence os
Occurrences(os, o) == Cardinality({i \in DOMAIN os : os[i] = o})

SelectedAsStated ==
    {k \in DOMAIN txData.rows :
        /\ txData.rows[k].type = "add"
        /\ txData.rows[k].player # ""
        /\ Trim(txData.rows[k].to_team) # ""}

\* C10 as stated: an event contributes to a player's entry iff its type is
\* exactly "add", its player is non-empty and its destination team is non-empty
\* after trimming; each such event adds 1 to adds and total and appends one
\* owner, trade for the note "Trade" and waiver otherwise.
C10_SelectedAsStated ==
    Tracked =>
        /\ \A k \in SelectedAsStated :
                \E i \in DOMAIN owned : owned[i].player = Trim(txData.rows[k].player)
        /\ \A i \in DOMAIN owned :
                LET x == owned[i]
                    mine == {k \in SelectedAsStated : Trim(txData.rows[k].player) = x.player}
                IN  /\ x.adds = Cardinality(mine)
                    /\ x.total = Cardinality(DraftOf(x.player)) + Cardinality(mine)

\* the owners of entry x that are not drafted
AddOwners(x) == SelectSeq(x.owned, LAMBDA o : o.type # "drafted")

\* C10 amended: an event contributes to a player's entry iff its type is exactly
\* "add" and its player and its destination team are non-empty after trimming;
\* each such event adds 1 to adds and total and appends one owner, trade for the
\* note "Trade" and waiver otherwise; all other events change nothing.
C10_EventSelection ==
    Tracked =>
        /\ \A k \in DOMAIN txData.rows :
                (Trim(txData.rows[k].player) # "" /\ k \in CountedOf(Trim(txData.rows[k].player)))
                    => \E i \in DOMAIN owned : owned[i].player = Trim(txData.rows[k].player)
        /\ \A i \in DOMAIN owned :
                LET x == owned[i]
                    C == CountedOf(x.player)
                IN  /\ x.player # ""
                    /\ DraftOf(x.player) \cup C # {}
                    /\ x.adds = Cardinality(C)
                    /\ x.total = Cardinality(DraftOf(x.player)) + Cardinality(C)
                    /\ Len(AddOwners(x)) = Cardinality(C)
                    /\ \A k \in C :
                            Occurrences(AddOwners(x), OwnerOf(k))
                                = Cardinality({j \in C : OwnerOf(j) = OwnerOf(k)})
        /\ \A i, j \in DOMAIN owned : owned[i].player = owned[j].player => i = j

\* a file with a trade, an add under a blank player name and an event that is
\* no add: the entry counts the trade alone
C10_Witness ==
    /\ Tracked
    /\ Len(owned) = 1
    /\ owned[1].adds = 1
    /\ AddOwners(owned[1]) = <<[team |-> "Al", type |-> "trade"]>>
    /\ \E k \in DOMAIN txData.rows :
            txData.rows[k].type = "add" /\ txData.rows[k].player = " "
    /\ \E k \in DOMAIN txData.rows : txData.rows[k].type # "add"

-----------------------------------------------------------------------------
(* record-breakers/page.tsx: the Record-Breaker Normalizer *)

\* the concatenation of the sequences of ss, in order
RECURSIVE ConcatAll(_)
ConcatAll(ss) == IF ss = <<>> THEN <<>> ELSE Head(ss) \o ConcatAll(Tail(ss))

\* the indices of S in ascending order
Ascending(S) ==
    [k \in 1..Cardinality(S) |-> CHOOSE i \in S : Cardinality({j \in S : j < i}) = k - 1]

\* row[h] ?? ""
Cell(row, h) == IF h \in DOMAIN row THEN row[h] ELSE ""

\* r[headers[0]] ?? r["Record"] ?? ""
FirstCell(headers, r) ==
    IF Len(headers) > 0 /\ headers[1] \in DOMAIN r THEN r[headers[1]] ELSE Cell(r, "Record")

\* lines 29-56
shouldExcludeSection(sectionName) ==
    LET s == toLowerCase(Trim(sectionName))
    IN  \/ includes(s, "points from draft players")
        \/ includes(s, "points from drafted players")
        \/ /\ \/ includes(s, "points from waiver-wire pickups")
              \/ includes(s, "points from waiver wire pickups")
           /\ includes(s, "least")
        \/ includes(s, "kicking points") /\ includes(s, "least")
        \/ includes(s, "defensive points") /\ includes(s, "least")
        \/ includes(s, "touchdowns") /\ includes(s, "least")
        \/ includes(s, "passing yards") /\ includes(s, "least")
        \/ includes(s, "rushing yards") /\ includes(s, "least")
        \/ includes(s, "receiving yards") /\ includes(s, "least")
        \/ includes(s, "field goals") /\ includes(s, "least")
        \/ includes(s, "post-draft") /\ includes(s, "least")
        \/ includes(s, "field goals") /\ includes(s, "most")
        \/ includes(s, "margin of defeat")

\* lines 59-61
hasAllTimeTag(row) == \E h \in DOMAIN row : includes(toLowerCase(row[h]), "all time")

\* lines 69-76, on the titles and cells of the documents: lower case, trimmed,
\* dash variants unified, the words "all time" and a trailing "season YYYY"
\* (with its comma or dash) removed, white space collapsed
normalizeCell(val) ==
    CASE val \in {"Al", "AL ", "al", "Al All Time", "AL  all time"} -> "al"
      [] val \in {"Bo", "Bo All Time"} -> "bo"
      [] val \in {"Most Wins", "MOST WINS - Season 2024"} -> "most wins"
      [] val = "Least Team Points" -> "least team points"
      [] val = "Margin of Defeat" -> "margin of defeat"
      [] val = "Most Points From Draft Players" -> "most points from draft players"
      [] val = "Most Points From Waiver-Wire Pickups" -> "most points from waiver-wire pickups"
      [] val \in {"", "42", "50", "50 pts", "42 pts", "7-3", "n/a"} -> val

\* text.match(/-?\d+(\.\d+)?/g) || [], on the cells of the documents
matchNumbers(text) ==
    CASE text \in {"42", "42 pts"} -> <<"42">>
      [] text \in {"50", "50 pts"} -> <<"50">>
      [] text = "7-3" -> <<"7", "-3">>
      [] OTHER -> <<>>

RECURSIVE JoinBar(_)
\* Array.prototype.join("|")
JoinBar(s) ==
    IF Len(s) = 0 THEN ""
    ELSE IF Len(s) = 1 THEN s[1]
    ELSE s[1] \o "|" \o JoinBar(Tail(s))

\* lines 78-83
extractNumericSignature(headers, row) ==
    IF Len(headers) = 0 THEN ""
    ELSE LET last == Cell(row, headers[Len(headers)])
             found == matchNumbers(last)
         IN  JoinBar(IF found = <<>> THEN <<"">> ELSE found)

\* lines 85-90: null when the last column holds no number
numericFromRow(headers, row) ==
    IF Len(headers) = 0 THEN Null
    ELSE LET m == matchNumbers(Cell(row, headers[Len(headers)]))
         IN  IF m = <<>> THEN Null ELSE Number(m[1])

\* lines 93-110
ORDER_PATTERNS ==
    << <<"win">>, <<"loss">>, <<"team points", "most">>, <<"touchdowns", "most">>,
       <<"rushing", "most">>, <<"receiving", "most">>, <<"passing", "most">>,
       <<"offensive points", "most">>, <<"margin of victory", "largest">>,
       <<"strength of schedule", "hardest">>, <<"team points", "least">>,
       <<"offensive points", "least">>, <<"margin of victory", "smallest">>,
       <<"kicking points", "most">>, <<"defensive points", "most">>,
       <<"strength of schedule", "easiest">> >>

\* lines 112-123; the index i of the code is k - 1
rankSection(title) ==
    LET t == normalizeCell(title)
        hit(k) ==
            LET tokens == ORDER_PATTERNS[k]
            IN  /\ \A n \in DOMAIN tokens : includes(t, tokens[n])
                /\ ~(tokens = <<"win">> /\ includes(t, "margin of victory"))
                /\ ~(tokens = <<"loss">> /\ includes(t, "margin of victory"))
        k1 == First({k \in DOMAIN ORDER_PATTERNS : hit(k)})
    IN  IF k1 = 0 THEN 10000 ELSE k1 - 1

\* lines 125-130
compareSections(a, b) ==
    IF rankSection(a.section) # rankSection(b.section)
    THEN rankSection(a.section) - rankSection(b.section)
    ELSE localeCompare(a.section, b.section)

\* RecordSection rows: string-keyed records
Rec(record, holder, value) ==
    ("Record" :> record) @@ ("Record Holder" :> holder) @@ ("Value" :> value)
TeamPts(team, points) == ("Team" :> team) @@ ("Points" :> points)

\* one row of records.json with the place it stands at: the season, the
\* category, and the title and headers of its section
Placed(season, key, section, headers, row) ==
    [year |-> season, key |-> key, section |-> section, headers |-> headers, row |-> row]

RecEntries ==
    {Placed("2023", "head_to_head", "Most Wins", <<"Record", "Record Holder", "Value">>, r) :
        r \in {Rec("Al All Time", "Al", "42"), Rec("AL  all time", "Al", "50 pts"),
               Rec("Al All Time", "Al", "n/a"), Rec("Al", "Al", "42"),
               Rec("AL ", "al", "42 pts"), Rec("Bo", "Bo", "7-3")}}
    \cup {Placed("2024", "head_to_head", "Most Wins", <<"Record", "Record Holder", "Value">>, r) :
        r \in {Rec("Al All Time", "Al", "42"), Rec("Al All Time", "Al", "50")}}
    \cup {Placed("2024", "head_to_head", "MOST WINS - Season 2024",
                 <<"Record", "Record Holder", "Value">>, Rec("Al All Time", "Al", "50"))}
    \cup {Placed("2023", "team_points", "Least Team Points", <<"Team", "Points">>, r) :
        r \in {TeamPts("Al All Time", "42"), TeamPts("Al All Time", "50")}}
    \cup {Placed("2024", "team_stats", "Margin of Defeat",
                 <<"Record", "Record Holder", "Value">>, r) :
        r \in {Rec("Al All Time", "Al", "42"), Rec("Al", "Al", "42")}}
    \cup {Placed("2024", "team_points", "Most Points From Draft Players",
                 <<"Record", "Record Holder", "Value">>, r) :
        r \in {Rec("Al All Time", "Al", "42"), Rec("Al", "Al", "42")}}
    \cup {Placed("2024", "team_points", "Most Points From Waiver-Wire Pickups",
                 <<"Record", "Record Holder", "Value">>, r) :
        r \in {Rec("Al All Time", "Al", "42"), Rec("Al", "Al", "42")}}

\* the sections of one season and category: a section per title, in the order
\* the titles first stand in the file, each with its rows in file order
SectionsOf(es) ==
    LET firsts == Ascending({i \in DOMAIN es :
                                \A j \in 1..(i - 1) : es[j].section # es[i].section})
    IN  [k \in DOMAIN firsts |->
            LET e == es[firsts[k]]
                mine == SelectSeq(es, LAMBDA x : x.section = e.section)
            IN  [section |-> e.section, headers |-> e.headers,
                 rows |-> [i \in DOMAIN mine |-> mine[i].row]]]

\* YearData of one season; a category that is absent has no sections
YearDataOf(es, season) ==
    [year |-> season,
     head_to_head |-> SectionsOf(SelectSeq(es,
                        LAMBDA e : e.year = season /\ e.key = "head_to_head")),
     team_points |-> SectionsOf(SelectSeq(es,
                        LAMBDA e : e.year = season /\ e.key = "team_points")),
     team_stats |-> SectionsOf(SelectSeq(es,
                        LAMBDA e : e.year = season /\ e.key = "team_stats"))]

\* RecordsData: years in the order Object.keys / Object.values give them
\* (keys that are whole numbers, ascending)
RecordsDoc(es) ==
    LET ys == SelectSeq(<<"2023", "2024">>, LAMBDA y : \E i \in DOMAIN es : es[i].year = y)
    IN  [years |-> [k \in DOMAIN ys |-> YearDataOf(es, ys[k])]]

\* the records.json documents
RecordsDocs == {RecordsDoc(es) : es \in SeqsUpTo(RecEntries, MaxRecs)}

\* yd[key]
SectionsAt(yd, key) ==
    CASE key = "head_to_head" -> yd.head_to_head
      [] key = "team_points" -> yd.team_points
      [] key = "team_stats" -> yd.team_stats

SeasonalKeys == <<"head_to_head", "team_points", "team_stats">>

\* Pushes that skips no section
PushesOfAllSections(d) ==
    ConcatAll([y \in DOMAIN d.years |->
        ConcatAll([k \in DOMAIN SeasonalKeys |->
            LET secs == SectionsAt(d.years[y], SeasonalKeys[k])
            IN  ConcatAll([s \in DOMAIN secs |->
                    LET rs == SelectSeq(secs[s].rows, hasAllTimeTag)
                    IN  [i \in DOMAIN rs |->
                            [title |-> secs[s].section, headers |-> secs[s].headers,
                             row |-> rs[i]]]])])])

\* lines 158-168: the calls of push, in the order the loops make them
Pushes(d) ==
    ConcatAll([y \in DOMAIN d.years |->
        ConcatAll([k \in DOMAIN SeasonalKeys |->
            LET secs == SelectSeq(SectionsAt(d.years[y], SeasonalKeys[k]),
                                  LAMBDA sec : ~shouldExcludeSection(sec.section))
            IN  ConcatAll([s \in DOMAIN secs |->
                    LET rs == SelectSeq(secs[s].rows, hasAllTimeTag)
                    IN  [i \in DOMAIN rs |->
                            [title |-> secs[s].section, headers |-> secs[s].headers,
                             row |-> rs[i]]]])])])

\* lines 151-156: bySection in insertion order; the headers are those of the
\* first push of the title
BySection(ps) ==
    LET firsts == Ascending({i \in DOMAIN ps :
                                \A j \in 1..(i - 1) : ps[j].title # ps[i].title})
    IN  [k \in DOMAIN firsts |->
            LET p == ps[firsts[k]]
                mine == SelectSeq(ps, LAMBDA x : x.title = p.title)
            IN  [title |-> p.title, headers |-> p.headers,
                 rows |-> [i \in DOMAIN mine |-> mine[i].row]]]

\* lines 173-176
KeepMin(secNorm) ==
    includes(secNorm, "least") \/ includes(secNorm, "easiest") \/ includes(secNorm, "smallest")

\* Better that takes the larger value in every section
BetterLargest(keepMin, valRaw, current) == valRaw.h > current.h

\* line 193
Better(keepMin, valRaw, current) ==
    (~keepMin /\ valRaw.h > current.h) \/ (keepMin /\ valRaw.h < current.h)

RECURSIVE ByRecord(_, _, _, _)
\* lines 178-195: byRecord in insertion order after the first n rows
ByRecord(headers, rs, n, secNorm) ==
    IF n = 0 THEN <<>>
    ELSE LET prev == ByRecord(headers, rs, n - 1, secNorm)
             r == rs[n]
             team == normalizeCell(FirstCell(headers, r))
             valRaw == numericFromRow(headers, r)
             key == secNorm \o "::" \o team
             i == First({k \in DOMAIN prev : prev[k].key = key})
         IN  IF valRaw = Null THEN prev
             ELSE IF ~valRaw.fin THEN prev
             ELSE IF i = 0 THEN Append(prev, [key |-> key, row |-> r, val |-> valRaw])
             ELSE IF Better(KeepMin(secNorm), valRaw, prev[i].val)
                  THEN [prev EXCEPT ![i] = [key |-> key, row |-> r, val |-> valRaw]]
             ELSE prev

\* const allTimeSections = useMemo(..., [data]), lines 149-203
AllTimeSections(d) ==
    IF d = Null THEN <<>>
    ELSE
        LET by == BySection(Pushes(d))
            all == [k \in DOMAIN by |->
                        LET byRecord == ByRecord(by[k].headers, by[k].rows, Len(by[k].rows),
                                                 normalizeCell(by[k].title))
                        IN  [section |-> by[k].title, headers |-> by[k].headers,
                             rows |-> [i \in DOMAIN byRecord |-> byRecord[i].row]]]
            out == SelectSeq(all, LAMBDA sec : Len(sec.rows) > 0)
        IN  Sort(out, [i \in DOMAIN out, j \in DOMAIN out |->
                            compareSections(out[i], out[j]) < 0])

\* sec.headers.find((h) => h.toLowerCase().includes("holder")) ?? "Record Holder"
HolderHeader(headers) ==
    LET i == First({k \in DOMAIN headers : includes(toLowerCase(headers[k]), "holder")})
    IN  IF i = 0 THEN "Record Holder" ELSE headers[i]

\* lines 222-231
Signature(sec, r) ==
    normalizeCell(sec.section) \o " :: "
        \o normalizeCell(FirstCell(sec.headers, r)) \o " :: "
        \o extractNumericSignature(sec.headers, r) \o " :: "
        \o normalizeCell(Cell(r, HolderHeader(sec.headers)))

\* Dedup that keeps the last row of a signature
DedupKeepLast(sec, rs) ==
    LET keep == Ascending({i \in DOMAIN rs :
                    \A j \in (i + 1)..Len(rs) : Signature(sec, rs[j]) # Signature(sec, rs[i])})
    IN  [k \in DOMAIN keep |-> rs[keep[k]]]

\* lines 219-235: a row is kept when no row before it has its signature
Dedup(sec, rs) ==
    LET keep == Ascending({i \in DOMAIN rs :
                    \A j \in 1..(i - 1) : Signature(sec, rs[j]) # Signature(sec, rs[i])})
    IN  [k \in DOMAIN keep |-> rs[keep[k]]]

\* Untagged that filters nothing
UntaggedAll(sec) == sec.rows

\* sec.rows.filter((r) => !hasAllTimeTag(r))
Untagged(sec) == SelectSeq(sec.rows, LAMBDA r : ~hasAllTimeTag(r))

\* the index of data.years[y], 0 when there is none
YearIndex(d, y) == First({k \in DOMAIN d.years : d.years[k].year = y})

\* const seasonalSections = useMemo(..., [data, mode, year]), lines 206-242
SeasonalSections(d, md, y) ==
    IF d = Null \/ md = "all_time" \/ y = "" THEN <<>>
    ELSE IF YearIndex(d, y) = 0 THEN <<>>
    ELSE
        LET secs == SectionsAt(d.years[YearIndex(d, y)], md)
            cand == SelectSeq(secs, LAMBDA sec : /\ ~shouldExcludeSection(sec.section)
                                                 /\ Len(Untagged(sec)) > 0)
            out == [k \in DOMAIN cand |->
                        [section |-> cand[k].section, headers |-> cand[k].headers,
                         rows |-> Dedup(cand[k], Untagged(cand[k]))]]
        IN  Sort(out, [i \in DOMAIN out, j \in DOMAIN out |->
                            compareSections(out[i], out[j]) < 0])

\* lines 253-256
isPostDraftMost(title) ==
    /\ includes(normalizeCell(title), "points from waiver-wire pickups")
    /\ includes(normalizeCell(title), "most")

\* lines 257-261
isDraftPlayersMost(title) ==
    /\ \/ includes(normalizeCell(title), "points from draft players")
       \/ includes(normalizeCell(title), "points from drafted players")
    /\ includes(normalizeCell(title), "most")

\* the comparator of lines 292-297
CompareExtra(a, b) ==
    LET aPost == IF isPostDraftMost(a.section) THEN 0 ELSE 1
        bPost == IF isPostDraftMost(b.section) THEN 0 ELSE 1
    IN  IF aPost # bPost THEN aPost - bPost ELSE localeCompare(a.section, b.section)

\* const teamPointsExtraTables = useMemo(..., [data, mode, year]), lines 245-300
TeamPointsExtraTables(d, md, y) ==
    IF d = Null \/ y = "" \/ md # "team_points" THEN <<>>
    ELSE IF YearIndex(d, y) = 0 THEN <<>>
    ELSE
        LET secs == d.years[YearIndex(d, y)].team_points
            cand == SelectSeq(secs,
                        LAMBDA sec : /\ \/ isPostDraftMost(sec.section)
                                        \/ isDraftPlayersMost(sec.section)
                                     /\ Len(Untagged(sec)) > 0)
            wanted == [k \in DOMAIN cand |->
                        [section |-> cand[k].section, headers |-> cand[k].headers,
                         rows |-> Dedup(cand[k], Untagged(cand[k]))]]
        IN  Sort(wanted, [i \in DOMAIN wanted, j \in DOMAIN wanted |->
                            CompareExtra(wanted[i], wanted[j]) < 0])

\* Object.keys(data.years).sort()
yearsList(d) == [k \in DOMAIN d.years |-> d.years[k].year]

\* the load effect, lines 138-146, with a response that is ok
RecLoaded ==
    /\ recFetch = "pending"
    /\ \E json \in RecordsDocs :
        /\ recData' = json
        /\ recYear' = IF Len(yearsList(json)) = 0 THEN ""
                      ELSE yearsList(json)[Len(yearsList(json))]
    /\ recFetch' = "done"
    /\ allTimeSections' = AllTimeSections(recData')
    /\ seasonalSections' = SeasonalSections(recData', mode, recYear')
    /\ teamPointsExtraTables' = TeamPointsExtraTables(recData', mode, recYear')
    /\ UNCHANGED <<mode, rhVars, hhVars, txVars, dhVars, csvVars, crVars>>

\* the load effect, lines 138-146: fetch or res.json() rejects (network error,
\* or a body that is no JSON, as that of a missing file); the effect has no
\* catch, so nothing is set
RecLoadFailed ==
    /\ recFetch = "pending"
    /\ recFetch' = "failed"
    /\ UNCHANGED <<recData, mode, recYear, allTimeSections, seasonalSections,
                   teamPointsExtraTables, rhVars, hhVars, txVars, dhVars, csvVars, crVars>>

\* the page renders "Loading..." instead of its selectors and sections, line 302
RecShowsLoading == recData = Null

\* the mode selector, line 377
SetMode ==
    /\ ~RecShowsLoading
    /\ \E m \in {"all_time", "head_to_head", "team_points", "team_stats"} :
        /\ m # mode
        /\ mode' = m
    /\ seasonalSections' = SeasonalSections(recData, mode', recYear)
    /\ teamPointsExtraTables' = TeamPointsExtraTables(recData, mode', recYear)
    /\ UNCHANGED <<recFetch, recData, recYear, allTimeSections,
                   rhVars, hhVars, txVars, dhVars, csvVars, crVars>>

\* the year selector, lines 383-389: disabled in all-time mode
RecSetYear ==
    /\ ~RecShowsLoading
    /\ mode # "all_time"
    /\ \E k \in DOMAIN yearsList(recData) :
        /\ yearsList(recData)[k] # recYear
        /\ recYear' = yearsList(recData)[k]
    /\ seasonalSections' = SeasonalSections(recData, mode, recYear')
    /\ teamPointsExtraTables' = TeamPointsExtraTables(recData, mode, recYear')
    /\ UNCHANGED <<recFetch, recData, mode, allTimeSections,
                   rhVars, hhVars, txVars, dhVars, csvVars, crVars>>

\* the record-breakers page after its first render: the load effect has started
RecStarted ==
    /\ recFetch = "pending"
    /\ recData = Null
    /\ mode = "all_time"
    /\ recYear = ""
    /\ allTimeSections = <<>>
    /\ seasonalSections = <<>>
    /\ teamPointsExtraTables = <<>>

InitRec == RhIdleOff /\ HhIdle /\ TxIdle /\ RecStarted /\ DhIdle /\ CsvIdle /\ CrIdle
NextRec == RecLoaded \/ RecLoadFailed \/ SetMode \/ RecSetYear
SpecRec == InitRec /\ [][NextRec]_vars

-----------------------------------------------------------------------------
(* Record-Breaker Normalizer: all-time mode *)

\* the sections of the loaded document, each with its season and category
DocSections ==
    IF recData = Null THEN {}
    ELSE UNION {UNION {{[year |-> recData.years[y].year, key |-> SeasonalKeys[k],
                         sec |-> SectionsAt(recData.years[y], SeasonalKeys[k])[s]] :
                            s \in DOMAIN SectionsAt(recData.years[y], SeasonalKeys[k])} :
                        k \in DOMAIN SeasonalKeys} :
                    y \in DOMAIN recData.years}

\* the rows tagged "all time" of the sections titled title, with their headers
TaggedRows(title) ==
    UNION {{[headers |-> x.sec.headers, row |-> x.sec.rows[i]] :
                i \in {j \in DOMAIN x.sec.rows : hasAllTimeTag(x.sec.rows[j])}} :
            x \in {d \in DocSections : d.sec.section = title}}

\* the rows of the group of title and entrant that hold a number
Group(title, entrant) ==
    {c \in TaggedRows(title) :
        /\ normalizeCell(FirstCell(c.headers, c.row)) = entrant
        /\ matchNumbers(Cell(c.row, c.headers[Len(c.headers)])) # <<>>}

\* the first number of the last column, in halves
ValueOf(headers, row) == Number(matchNumbers(Cell(row, headers[Len(headers)]))[1]).h

\* the best value of a non-empty group: the least in a section whose normalized
\* title says least, easiest or smallest, the largest elsewhere
BestOf(title, group) ==
    LET vals == {ValueOf(c.headers, c.row) : c \in group}
        least == \E w \in {"least", "easiest", "smallest"} : includes(normalizeCell(title), w)
    IN  CHOOSE v \in vals : \A w \in vals : IF least THEN v <= w ELSE v >= w

\* the places <<s, i>> of the rows of the all-time output
AllTimePlaces ==
    UNION {{<<s, i>> : i \in DOMAIN allTimeSections[s].rows} : s \in DOMAIN allTimeSections}

\* the rows the all-time output keeps for the group of title and entrant
KeptOf(title, entrant) ==
    {p \in AllTimePlaces :
        /\ allTimeSections[p[1]].section = title
        /\ normalizeCell(FirstCell(allTimeSections[p[1]].headers,
                                   allTimeSections[p[1]].rows[p[2]])) = entrant}

\* C11: in the all-time output, of every group (rows tagged "all time" of the
\* sections with one title, with one normalized first-column value) that holds a
\* row with a number exactly one row is kept; its value, the first number of the
\* last column, is the largest of the group, or the least when the normalized
\* title contains "least", "easiest" or "smallest", whatever the order of the
\* seasons and rows; a row with no number in the last column is never kept.
C11_BestRowKept ==
    /\ \A x \in DocSections :
        ~shouldExcludeSection(x.sec.section) =>
            \A c \in TaggedRows(x.sec.section) :
                LET entrant == normalizeCell(FirstCell(c.headers, c.row))
                    group == Group(x.sec.section, entrant)
                    kept == KeptOf(x.sec.section, entrant)
                IN  IF group = {} THEN kept = {}
                    ELSE /\ Cardinality(kept) = 1
                         /\ \A p \in kept :
                                ValueOf(allTimeSections[p[1]].headers,
                                        allTimeSections[p[1]].rows[p[2]])
                                    = BestOf(x.sec.section, group)
    /\ \A p \in AllTimePlaces :
            numericFromRow(allTimeSections[p[1]].headers,
                           allTimeSections[p[1]].rows[p[2]]) # Null

\* a group of two rows tagged "all time" with the values 42 and 50, the row
\* with 50 visited first: the row kept holds 50
C11_Witness ==
    /\ recData # Null
    /\ \E x \in DocSections :
        /\ ~shouldExcludeSection(x.sec.section)
        /\ \E c \in TaggedRows(x.sec.section) :
            LET entrant == normalizeCell(FirstCell(c.headers, c.row))
                group == Group(x.sec.section, entrant)
            IN  /\ Cardinality({ValueOf(g.headers, g.row) : g \in group}) = 2
                /\ ValueOf(x.sec.headers, x.sec.rows[1]) = 100
                /\ \E p \in KeptOf(x.sec.section, entrant) :
                        ValueOf(allTimeSections[p[1]].headers,
                                allTimeSections[p[1]].rows[p[2]]) = 100

\* C12: the all-time output never holds two rows with the same normalized
\* section title and the same normalized first-column value.
C12_OneRowPerNormalizedKey ==
    \A p \in AllTimePlaces, q \in AllTimePlaces :
        (/\ normalizeCell(allTimeSections[p[1]].section)
                = normalizeCell(allTimeSections[q[1]].section)
         /\ normalizeCell(FirstCell(allTimeSections[p[1]].headers,
                                    allTimeSections[p[1]].rows[p[2]]))
                = normalizeCell(FirstCell(allTimeSections[q[1]].headers,
                                          allTimeSections[q[1]].rows[q[2]])))
            => p = q

-----------------------------------------------------------------------------
(* Record-Breaker Normalizer: the row filters, the exclusions, seasonal dedup *)

\* some cell of the row contains "all time", whatever the case
TaggedAllTime(row) == \E h \in DOMAIN row : includes(toLowerCase(row[h]), "all time")

\* the rows of a sequence of sections
RowsOf(secs) == UNION {{secs[s].rows[i] : i \in DOMAIN secs[s].rows} : s \in DOMAIN secs}

\* the row is handed to the all-time aggregation under the title of sec
AllTimeCandidate(sec, r) ==
    \E k \in DOMAIN Pushes(recData) :
        Pushes(recData)[k].title = sec.section /\ Pushes(recData)[k].row = r

\* the row is handed to the seasonal dedup of sec
SeasonalCandidate(sec, r) == \E i \in DOMAIN Untagged(sec) : Untagged(sec)[i] = r

\* C13: every row of the all-time output has a cell containing "all time", no
\* row of the seasonal sections or of the extra team-points tables has one, and
\* every row of a section that is not excluded is a candidate of exactly one of
\* the two modes.
C13_ComplementaryFilters ==
    /\ \A r \in RowsOf(allTimeSections) : TaggedAllTime(r)
    /\ \A r \in RowsOf(seasonalSections) \cup RowsOf(teamPointsExtraTables) : ~TaggedAllTime(r)
    /\ \A x \in DocSections :
        ~shouldExcludeSection(x.sec.section) =>
            \A i \in DOMAIN x.sec.rows :
                AllTimeCandidate(x.sec, x.sec.rows[i]) # SeasonalCandidate(x.sec, x.sec.rows[i])

\* a section shown in seasonal mode that holds a tagged and an untagged row, and
\* an extra team-points table shown with it
C13_Witness ==
    /\ Len(teamPointsExtraTables) > 0
    /\ \E x \in DocSections :
        /\ x.key = mode /\ x.year = recYear
        /\ \E i \in DOMAIN x.sec.rows, j \in DOMAIN x.sec.rows :
            /\ TaggedAllTime(x.sec.rows[i])
            /\ ~TaggedAllTime(x.sec.rows[j])
            /\ x.sec.rows[i] \in RowsOf(allTimeSections)
            /\ x.sec.rows[j] \in RowsOf(seasonalSections)

\* C14: a section whose name matches the exclusion rules is in neither the
\* all-time output nor the seasonal sections, in any mode and year, tagged or not.
C14_ExcludedNeverShown ==
    /\ \A s \in DOMAIN allTimeSections : ~shouldExcludeSection(allTimeSections[s].section)
    /\ \A s \in DOMAIN seasonalSections : ~shouldExcludeSection(seasonalSections[s].section)

\* the category and year of an excluded section are selected; the section holds
\* a tagged and an untagged row
C14_Witness ==
    \E x \in DocSections :
        /\ shouldExcludeSection(x.sec.section)
        /\ x.key = mode /\ x.year = recYear
        /\ \E i \in DOMAIN x.sec.rows : TaggedAllTime(x.sec.rows[i])
        /\ \E i \in DOMAIN x.sec.rows : ~TaggedAllTime(x.sec.rows[i])

\* the composite signature of a row of the section sec
SignatureParts(sec, r) ==
    <<normalizeCell(sec.section),
      normalizeCell(FirstCell(sec.headers, r)),
      matchNumbers(Cell(r, sec.headers[Len(sec.headers)])),
      normalizeCell(Cell(r, HolderHeader(sec.headers)))>>

\* the section of the selected year and category that the output section comes from
SourceOf(out) ==
    CHOOSE x \in DocSections :
        x.key = mode /\ x.year = recYear /\ x.sec.section = out.section

\* kept is rs with some rows left out: the indices of rs that kept takes, ascending
IsSubsequence(kept, rs) ==
    \E f \in [DOMAIN kept -> DOMAIN rs] :
        /\ \A i \in DOMAIN kept : kept[i] = rs[f[i]]
        /\ \A i \in DOMAIN kept, j \in DOMAIN kept : i < j => f[i] < f[j]

\* C15: in a seasonal section the rows kept are a subsequence of the rows
\* supplied, no two of them have the same composite signature, the row kept for
\* a signature is the first supplied row with it, and deduplicating the kept
\* rows again changes nothing.
C15_SeasonalDedup ==
    \A s \in DOMAIN seasonalSections :
        LET out == seasonalSections[s]
            src == SourceOf(out).sec
            supplied == SelectSeq(src.rows, LAMBDA r : ~TaggedAllTime(r))
        IN  /\ IsSubsequence(out.rows, src.rows)
            /\ \A i \in DOMAIN out.rows, j \in DOMAIN out.rows :
                    SignatureParts(out, out.rows[i]) = SignatureParts(out, out.rows[j]) => i = j
            /\ \A k \in DOMAIN supplied :
                    \E i \in DOMAIN out.rows :
                        /\ SignatureParts(out, out.rows[i]) = SignatureParts(src, supplied[k])
                        /\ out.rows[i] =
                             supplied[First({n \in DOMAIN supplied :
                                 SignatureParts(src, supplied[n])
                                     = SignatureParts(src, supplied[k])})]
            /\ Dedup(out, out.rows) = out.rows

\* a seasonal section that was supplied two different rows with one signature:
\* the first of them is kept
C15_Witness ==
    \E s \in DOMAIN seasonalSections :
        LET src == SourceOf(seasonalSections[s]).sec
        IN  /\ Len(src.rows) = 2
            /\ src.rows[1] # src.rows[2]
            /\ SignatureParts(src, src.rows[1]) = SignatureParts(src, src.rows[2])
            /\ seasonalSections[s].rows = <<src.rows[1]>>

-----------------------------------------------------------------------------
(* league-finishes/page.tsx, DraftHistoryPage: the Draft Board Grouper *)

\* year = null of useState<number | null>; the seasons of the manifest are not 0
NoYear == 0

\* String(y) of a season
YearText(y) == IF y = 2023 THEN "2023" ELSE IF y = 2024 THEN "2024" ELSE ""

\* the rows parseCsv yields for a draft file: fields are trimmed text
Pick(round, pick, player, mgr) ==
    [round |-> round, pick |-> pick, player |-> player, manager |-> mgr]

\* the picks of the draft files, each with its season
DraftEntries ==
    {[year |-> 2024, row |-> r] :
        r \in {Pick("2", "1", "Kane", "Al"), Pick("x", "2", "Kane", "Al"),
               Pick("1", "3", "Kane", "Al"), Pick("1", "12", "Mixon", "Al"),
               Pick("10", "1", "Mixon", "Bo")}}
    \cup {[year |-> 2023, row |-> r] :
        r \in {Pick("1", "1", "Kane", "Al"), Pick("", "2", "Mixon", "Al"),
               Pick("1", "1", "Zed", "Bo")}}

\* the draft files of the two seasons, by season ascending
ServerOf(es) ==
    [k \in 1..2 |->
        LET y == 2022 + k
            mine == SelectSeq(es, LAMBDA x : x.year = y)
        IN  [year |-> y, rows |-> [i \in DOMAIN mine |-> mine[i].row]]]

DraftServers == {ServerOf(es) : es \in SeqsUpTo(DraftEntries, MaxPicks)}

\* the manifest.json documents
Manifests ==
    {[seasons |-> <<[year |-> 2024, draft |-> "/data/draft_2024.csv"],
                    [year |-> 2023, draft |-> "/data/draft_2023.csv"]>>],
     [seasons |-> <<>>]}

\* parseCsv(await res.text()) for the draft file of season y
FileRows(files, y) == files[First({k \in DOMAIN files : files[k].year = y})].rows

\* manifest.seasons.find((s) => s.year === year) finds an entry
HasEntry(mf, y) == \E k \in DOMAIN mf.seasons : mf.seasons[k].year = y

\* lines 441-442: the key of a row
RoundKey(r) == IF Number(r.round).fin THEN Number(r.round).h ELSE 0

\* GroupedByRoundSingle without the sort of line 445
GroupedInsertionOrder(rs) ==
    LET firsts == Ascending({i \in DOMAIN rs :
                                \A j \in 1..(i - 1) : RoundKey(rs[j]) # RoundKey(rs[i])})
    IN  [k \in DOMAIN firsts |->
            [key |-> RoundKey(rs[firsts[k]]),
             rows |-> SelectSeq(rs, LAMBDA r : RoundKey(r) = RoundKey(rs[firsts[k]]))]]

\* const groupedByRoundSingle = useMemo(..., [rows]), lines 438-446: the entries
\* of map in insertion order, then sorted by key; key is in halves
GroupedByRoundSingle(rs) ==
    LET firsts == Ascending({i \in DOMAIN rs :
                                \A j \in 1..(i - 1) : RoundKey(rs[j]) # RoundKey(rs[i])})
        entries == [k \in DOMAIN firsts |->
                        [key |-> RoundKey(rs[firsts[k]]),
                         rows |-> SelectSeq(rs, LAMBDA r : RoundKey(r) = RoundKey(rs[firsts[k]]))]]
    IN  Sort(entries, [i \in DOMAIN entries, j \in DOMAIN entries |->
                            entries[i].key - entries[j].key < 0])

\* const allManagers = useMemo(..., [allRowsByYear]), lines 426-435
allManagers(all) ==
    LET names == UNION {{Trim(all[k].rows[i].manager) : i \in DOMAIN all[k].rows} :
                            k \in DOMAIN all} \ {""}
    IN  [k \in 1..Cardinality(names) |->
            CHOOSE n \in names :
                Cardinality({x \in names : NameRank(x) < NameRank(n)}) = k - 1]

\* a row of a flat view: the pick with its season
WithSeason(r, season) ==
    [round |-> r.round, pick |-> r.pick, player |-> r.player, manager |-> r.manager,
     season |-> season]

\* the comparator of lines 461-469 and 488-496; NaN when a round or a pick
\* that is compared is no number
CompareFlat(a, b) ==
    LET ay == Number(a.season)
        by == Number(b.season)
        ar == Number(a.round)
        br == Number(b.round)
        ap == Number(a.pick)
        bp == Number(b.pick)
    IN  IF ay.h # by.h THEN Num(by.h - ay.h)
        ELSE IF ~ar.fin \/ ~br.fin THEN NaN
        ELSE IF ar.h # br.h THEN Num(ar.h - br.h)
        ELSE IF ~ap.fin \/ ~bp.fin THEN NaN
        ELSE Num(ap.h - bp.h)

\* what sort makes of the comparator's result: NaN counts as 0
SortOrder(a, b) == IF CompareFlat(a, b).fin THEN CompareFlat(a, b).h ELSE 0

\* the comparator is a consistent comparator for the rows of s (ECMAScript,
\* Array.prototype.sort)
Consistent(s) ==
    \A i \in DOMAIN s, j \in DOMAIN s :
        /\ (SortOrder(s[i], s[j]) < 0) = (SortOrder(s[j], s[i]) > 0)
        /\ \A k \in DOMAIN s :
            /\ SortOrder(s[i], s[j]) = 0 /\ SortOrder(s[j], s[k]) = 0
                    => SortOrder(s[i], s[k]) = 0
            /\ SortOrder(s[i], s[j]) < 0 /\ SortOrder(s[j], s[k]) < 0
                    => SortOrder(s[i], s[k]) < 0

\* out.sort(...) of lines 461 and 488: the stable order when the comparator is
\* consistent; otherwise the order is implementation-defined, but every
\* comparison between rows of different seasons is definite, so the seasons
\* stay apart, latest first
FlatSorted(out) ==
    IF Consistent(out)
    THEN {Sort(out, [i \in DOMAIN out, j \in DOMAIN out |-> SortOrder(out[i], out[j]) < 0])}
    ELSE {s \in Arrangements(out) :
            \A i \in DOMAIN s, j \in DOMAIN s :
                i < j => Number(s[i].season).h >= Number(s[j].season).h}

\* lines 450-459: the rows of the manager, seasons latest first, before the sort
ManagerRows(filter, all) ==
    ConcatAll([k \in DOMAIN all |->
        LET yd == all[Len(all) + 1 - k]
            mine == SelectSeq(yd.rows, LAMBDA r : r.manager = filter)
        IN  [i \in DOMAIN mine |-> WithSeason(mine[i], YearText(yd.year))]])

\* const managerRowsFlat = useMemo(..., [managerFilter, allRowsByYear]), lines 449-472
ManagerRowsFlat(filter, all) ==
    IF filter = "" THEN {<<>>} ELSE FlatSorted(ManagerRows(filter, all))

\* lines 477-486: the rows whose player matches, seasons ascending, before the sort
PlayerRows(q, all) ==
    ConcatAll([k \in DOMAIN all |->
        LET hits == SelectSeq(all[k].rows,
                        LAMBDA r : includes(toLowerCase(r.player), toLowerCase(Trim(q))))
        IN  [i \in DOMAIN hits |-> WithSeason(hits[i], YearText(all[k].year))]])

\* const playerSearchResults = useMemo(..., [playerQuery, allRowsByYear]), lines 475-499
PlayerSearchResults(q, all) ==
    IF Trim(q) = "" THEN {<<>>} ELSE FlatSorted(PlayerRows(q, all))

\* lines 649-650 and 710-711: a season separator is rendered before row i
newSeason(arr, i) == i = 1 \/ arr[i - 1].season # arr[i].season

\* the manifest effect, lines 371-382, with a response that is ok; then the
\* effects of lines 385-402 and 405-423 run for the new manifest and year
ManifestLoaded ==
    /\ dhFetch.manifest = "pending"
    /\ \E mf \in Manifests :
        /\ manifest' = mf
        /\ dhYear' = IF Len(mf.seasons) # 0 THEN mf.seasons[1].year ELSE dhYear
    /\ LET started == dhYear' # NoYear /\ HasEntry(manifest', dhYear')
       IN  /\ dhLoading' = (started \/ dhLoading)
           /\ dhErr' = IF started THEN Null ELSE dhErr
           /\ dhFetch' = [manifest |-> "done", all |-> "pending",
                          season |-> IF started THEN Append(dhFetch.season, dhYear')
                                     ELSE dhFetch.season]
    /\ UNCHANGED <<draftFiles, dhRows, allRowsByYear, managerFilter, playerQuery,
                   groupedByRoundSingle, managerRowsFlat, playerSearchResults,
                   rhVars, hhVars, txVars, recVars, csvVars, crVars>>

\* the manifest effect, lines 378-380: the fetch or the parse failed
ManifestFailed ==
    /\ dhFetch.manifest = "pending"
    /\ dhErr' = Error("Failed to load manifest.json")
    /\ dhFetch' = [dhFetch EXCEPT !.manifest = "failed"]
    /\ UNCHANGED <<draftFiles, manifest, dhYear, dhRows, allRowsByYear, dhLoading,
                   managerFilter, playerQuery, groupedByRoundSingle, managerRowsFlat,
                   playerSearchResults, rhVars, hhVars, txVars, recVars, csvVars, crVars>>

\* dhFetch.season without its i-th fetch
Settled(i) ==
    [k \in 1..(Len(dhFetch.season) - 1) |->
        IF k < i THEN dhFetch.season[k] ELSE dhFetch.season[k + 1]]

\* the season effect, lines 393-395 and 398-400: a fetch in flight resolves
SeasonLoaded ==
    /\ \E i \in DOMAIN dhFetch.season :
        /\ dhRows' = FileRows(draftFiles, dhFetch.season[i])
        /\ dhFetch' = [dhFetch EXCEPT !.season = Settled(i)]
    /\ dhLoading' = FALSE
    /\ groupedByRoundSingle' = GroupedByRoundSingle(dhRows')
    /\ UNCHANGED <<draftFiles, manifest, dhYear, allRowsByYear, dhErr, managerFilter,
                   playerQuery, managerRowsFlat, playerSearchResults,
                   rhVars, hhVars, txVars, recVars, csvVars, crVars>>

\* the season effect, lines 396-400: a fetch in flight rejects
SeasonLoadFailed ==
    /\ \E i \in DOMAIN dhFetch.season : dhFetch' = [dhFetch EXCEPT !.season = Settled(i)]
    /\ dhErr' = Error("Failed to load draft CSV")
    /\ dhLoading' = FALSE
    /\ UNCHANGED <<draftFiles, manifest, dhYear, dhRows, allRowsByYear, managerFilter,
                   playerQuery, groupedByRoundSingle, managerRowsFlat, playerSearchResults,
                   rhVars, hhVars, txVars, recVars, csvVars, crVars>>

\* the year selector, lines 576-587 (disabled under a manager filter or a player
\* query), and the season effect it starts, lines 385-391
DhSetYear ==
    /\ manifest # Null
    /\ managerFilter = "" /\ playerQuery = ""
    /\ Len(dhFetch.season) < MaxInflight
    /\ \E k \in DOMAIN manifest.seasons :
        /\ manifest.seasons[k].year # dhYear
        /\ dhYear' = manifest.seasons[k].year
    /\ dhLoading' = TRUE
    /\ dhErr' = Null
    /\ dhFetch' = [dhFetch EXCEPT !.season = Append(@, dhYear')]
    /\ UNCHANGED <<draftFiles, manifest, dhRows, allRowsByYear, managerFilter,
                   playerQuery, groupedByRoundSingle, managerRowsFlat, playerSearchResults,
                   rhVars, hhVars, txVars, recVars, csvVars, crVars>>

\* the all-seasons effect, lines 405-423: every fetch has settled; a season
\* whose fetch rejected has no rows (line 415)
AllLoaded ==
    /\ dhFetch.all = "pending"
    /\ \E failed \in SUBSET {manifest.seasons[k].year : k \in DOMAIN manifest.seasons} :
        allRowsByYear' =
            LET ys == SelectSeq(<<2023, 2024>>, LAMBDA y : HasEntry(manifest, y))
            IN  [k \in DOMAIN ys |->
                    [year |-> ys[k],
                     rows |-> IF ys[k] \in failed THEN <<>> ELSE FileRows(draftFiles, ys[k])]]
    /\ dhFetch' = [dhFetch EXCEPT !.all = "done"]
    /\ managerRowsFlat' \in ManagerRowsFlat(managerFilter, allRowsByYear')
    /\ playerSearchResults' \in PlayerSearchResults(playerQuery, allRowsByYear')
    /\ UNCHANGED <<draftFiles, manifest, dhYear, dhRows, dhLoading, dhErr, managerFilter,
                   playerQuery, groupedByRoundSingle,
                   rhVars, hhVars, txVars, recVars, csvVars, crVars>>

\* the manager selector, lines 589-601: disabled under a player query
SetManagerFilter ==
    /\ playerQuery = ""
    /\ \E mgr \in {""} \cup {allManagers(allRowsByYear)[k] :
                                k \in DOMAIN allManagers(allRowsByYear)} :
        /\ mgr # managerFilter
        /\ managerFilter' = mgr
    /\ managerRowsFlat' \in ManagerRowsFlat(managerFilter', allRowsByYear)
    /\ UNCHANGED <<draftFiles, manifest, dhYear, dhRows, allRowsByYear, dhLoading, dhErr,
                   playerQuery, dhFetch, groupedByRoundSingle, playerSearchResults,
                   rhVars, hhVars, txVars, recVars, csvVars, crVars>>

\* the player search input, lines 604-610
SetPlayerQuery ==
    /\ \E q \in {"", "Ka", " "} :
        /\ q # playerQuery
        /\ playerQuery' = q
    /\ playerSearchResults' \in PlayerSearchResults(playerQuery', allRowsByYear)
    /\ UNCHANGED <<draftFiles, manifest, dhYear, dhRows, allRowsByYear, dhLoading, dhErr,
                   managerFilter, dhFetch, groupedByRoundSingle, managerRowsFlat,
                   rhVars, hhVars, txVars, recVars, csvVars, crVars>>

\* the draft-history page after its first render: the manifest effect has started
DhStarted ==
    /\ draftFiles \in DraftServers
    /\ manifest = Null
    /\ dhYear = NoYear
    /\ dhRows = <<>>
    /\ allRowsByYear = <<>>
    /\ dhLoading = FALSE
    /\ dhErr = Null
    /\ managerFilter = ""
    /\ playerQuery = ""
    /\ dhFetch = [manifest |-> "pending", all |-> "idle", season |-> <<>>]
    /\ groupedByRoundSingle = <<>>
    /\ managerRowsFlat = <<>>
    /\ playerSearchResults = <<>>

InitDraft == RhIdleOff /\ HhIdle /\ TxIdle /\ RecIdle /\ DhStarted /\ CsvIdle /\ CrIdle

\* the single-season view: the manifest, the season files and the year selector
NextDraft ==
    ManifestLoaded \/ ManifestFailed \/ SeasonLoaded \/ SeasonLoadFailed \/ DhSetYear
SpecDraft == InitDraft /\ [][NextDraft]_vars

\* the manager view and the player search: the manifest, the files of all
\* seasons, the manager selector and the search input
NextFlat == ManifestLoaded \/ AllLoaded \/ SetManagerFilter \/ SetPlayerQuery
SpecFlat == InitDraft /\ [][NextFlat]_vars

-----------------------------------------------------------------------------
(* C16: the round groups of the single-season view *)

\* the numeric round of a pick in halves, 0 when the round is no number
NumericRound(r) ==
    CASE r.round = "1" -> 2
      [] r.round = "2" -> 4
      [] r.round = "10" -> 20
      [] OTHER -> 0

\* C16: in the single-season view every pick of the season is in exactly one
\* round group, the key of a group is the numeric round of its picks (0 when
\* the round is not numeric), the groups are in strictly ascending key order
\* and the picks of a group are in source order.
C16_RoundGroups ==
    LET g == groupedByRoundSingle
    IN  /\ \A i \in DOMAIN dhRows :
            Cardinality({k \in DOMAIN g :
                            \E j \in DOMAIN g[k].rows : g[k].rows[j] = dhRows[i]}) = 1
        /\ \A k \in DOMAIN g :
            /\ g[k].rows # <<>>
            /\ g[k].rows = SelectSeq(dhRows, LAMBDA r : NumericRound(r) = g[k].key)
        /\ \A k \in DOMAIN g, l \in DOMAIN g : k < l => g[k].key < g[l].key

\* a season whose first pick is not of the lowest round and that has a pick
\* with a round that is no number: three groups, the first with key 0
C16_Witness ==
    /\ Len(dhRows) = 3
    /\ Len(groupedByRoundSingle) = 3
    /\ groupedByRoundSingle[1].key = 0
    /\ \E i \in DOMAIN dhRows : dhRows[i].round = "x"
    /\ NumericRound(dhRows[1]) = 4

-----------------------------------------------------------------------------
(* C17: the order and the separators of the manager view and the player search *)

\* a must come before b in the stated order: season descending, then round
\* ascending, then pick ascending
StrictlyBefore(a, b) ==
    LET ay == Number(a.season)
        by == Number(b.season)
        ar == Number(a.round)
        br == Number(b.round)
        ap == Number(a.pick)
        bp == Number(b.pick)
    IN  \/ ay.h > by.h
        \/ /\ ay.h = by.h
           /\ ar.fin /\ br.fin
           /\ \/ ar.h < br.h
              \/ ar.h = br.h /\ ap.fin /\ bp.fin /\ ap.h < bp.h

\* the rows of a flat view are in the stated order
FlatOrdered(view) ==
    \A i \in DOMAIN view, j \in DOMAIN view : i < j => ~StrictlyBefore(view[j], view[i])

\* each season of a flat view has exactly one separator
OneSeparatorPerSeason(view) ==
    \A s \in {view[i].season : i \in DOMAIN view} :
        Cardinality({i \in DOMAIN view : newSeason(view, i) /\ view[i].season = s}) = 1

\* C17: in the manager view and in the player search the rows are ordered by
\* season descending, round ascending and pick ascending, and each season of
\* the result has exactly one separator, before its first row.
C17_FlatOrderAndSeparators ==
    /\ FlatOrdered(managerRowsFlat) /\ OneSeparatorPerSeason(managerRowsFlat)
    /\ FlatOrdered(playerSearchResults) /\ OneSeparatorPerSeason(playerSearchResults)

-----------------------------------------------------------------------------
(* parseCsv (roll-of-honour/page.tsx, league-finishes/page.tsx) and parseCSV *)
(* (unnamed/part_000) on texts: a text is a sequence of characters           *)

\* the characters of the texts: a letter, the comma, the space, the line feed
\* and the carriage return
Chars == {"a", ",", " ", "\n", "\r"}

Texts == SeqsUpTo(Chars, MaxText)

\* the characters that String.prototype.trim strips, of those in Chars
WhiteSpace == {" ", "\n", "\r"}

\* s.trim()
trim(s) ==
    LET ks == {i \in DOMAIN s : s[i] \notin WhiteSpace}
    IN  IF ks = {} THEN <<>>
        ELSE SubSeq(s, First(ks), CHOOSE i \in ks : \A j \in ks : j <= i)

\* s.split(",")
SplitComma(s) ==
    LET cs == Ascending({i \in DOMAIN s : s[i] = ","})
    IN  [k \in 1..(Len(cs) + 1) |->
            SubSeq(s, IF k = 1 THEN 1 ELSE cs[k - 1] + 1,
                      IF k <= Len(cs) THEN cs[k] - 1 ELSE Len(s))]

\* s.split(/\r?\n/): a carriage return just before a line feed belongs to the
\* separator
SplitLines(s) ==
    LET ns == Ascending({i \in DOMAIN s : s[i] = "\n"})
    IN  [k \in 1..(Len(ns) + 1) |->
            LET from == IF k = 1 THEN 1 ELSE ns[k - 1] + 1
                upto == IF k <= Len(ns) THEN ns[k] - 1 ELSE Len(s)
            IN  SubSeq(s, from,
                       IF k <= Len(ns) /\ upto >= from /\ s[upto] = "\r"
                       THEN upto - 1 ELSE upto)]

\* s.toLowerCase(), character by character
LowerCase(s) == [i \in DOMAIN s |-> IF s[i] = "A" THEN "a" ELSE s[i]]

\* lines[0].split(",").map((h) => h.trim())
Headers(line) == [i \in DOMAIN SplitComma(line) |-> trim(SplitComma(line)[i])]

\* RowOf with the first column of a name kept instead of the last
RowOfFirstWins(headers, line) ==
    LET cols == SplitComma(line)
    IN  [h \in {headers[i] : i \in DOMAIN headers} |->
            LET i == First({j \in DOMAIN headers : headers[j] = h})
            IN  IF i <= Len(cols) THEN trim(cols[i]) ELSE <<>>]

\* lines 30-33 of roll-of-honour/page.tsx: the record of a data line; each
\* assignment row[h] = ... replaces that of an earlier column named h
RowOf(headers, line) ==
    LET cols == SplitComma(line)
    IN  [h \in {headers[i] : i \in DOMAIN headers} |->
            LET i == CHOOSE j \in DOMAIN headers :
                        headers[j] = h /\ \A l \in DOMAIN headers : headers[l] = h => l <= j
            IN  IF i <= Len(cols) THEN trim(cols[i]) ELSE <<>>]

\* DataLines with the header line kept
DataLinesAll(lines) == lines

\* lines.slice(1)
DataLines(lines) == [k \in 1..(Len(lines) - 1) |-> lines[k + 1]]

\* function parseCsv(text), roll-of-honour/page.tsx lines 25-35; the copy in
\* league-finishes/page.tsx, lines 266-276, is the same
parseCsv(text) ==
    LET lines == SplitLines(trim(text))
    IN  IF Len(lines) = 0 THEN <<>>
        ELSE [k \in DOMAIN DataLines(lines) |-> RowOf(Headers(lines[1]), DataLines(lines)[k])]

\* a column name as a text
PLAYER == <<"p", "l", "a", "y", "e", "r">>
POSITION == <<"p", "o", "s", "i", "t", "i", "o", "n">>
EDITORIAL_TEAM_ABBR ==
    <<"e", "d", "i", "t", "o", "r", "i", "a", "l", "_", "t", "e", "a", "m", "_", "a", "b", "b", "r">>
MANAGER == <<"m", "a", "n", "a", "g", "e", "r">>

\* obj.name || ""
Field(obj, name) == IF name \in DOMAIN obj THEN obj[name] ELSE <<>>

\* function parseCSV(text), unnamed/part_000 lines 45-61
parseCSV(text) ==
    LET lines == SplitLines(trim(text))
        headers == [i \in DOMAIN Headers(lines[1]) |-> LowerCase(Headers(lines[1])[i])]
    IN  [k \in 1..(Len(lines) - 1) |->
            LET obj == RowOf(headers, lines[k + 1])
            IN  [player |-> Field(obj, PLAYER), position |-> Field(obj, POSITION),
                 nfl |-> Field(obj, EDITORIAL_TEAM_ABBR), manager |-> Field(obj, MANAGER)]]

\* parseCsv is applied to the text
ParseCsv ==
    /\ csvCall = "none"
    /\ csvRows' = parseCsv(csvText)
    /\ csvCall' = "parseCsv"
    /\ UNCHANGED <<csvText, csvDraft, rhVars, hhVars, txVars, recVars, dhVars, crVars>>

\* parseCSV is applied to the text
ParseCSV ==
    /\ csvCall = "none"
    /\ csvDraft' = parseCSV(csvText)
    /\ csvCall' = "parseCSV"
    /\ UNCHANGED <<csvText, csvRows, rhVars, hhVars, txVars, recVars, dhVars, crVars>>

\* a text has been read, no parser has been applied
CsvStarted ==
    /\ csvText \in Texts
    /\ csvRows = <<>>
    /\ csvDraft = <<>>
    /\ csvCall = "none"

InitParse == RhIdleOff /\ HhIdle /\ TxIdle /\ RecIdle /\ DhIdle /\ CsvStarted /\ CrIdle
NextParse == ParseCsv \/ ParseCSV
SpecParse == InitParse /\ [][NextParse]_vars

-----------------------------------------------------------------------------
(* C18: the records of parseCsv *)

\* the lines of the trimmed text, the names of the header line, the fields of
\* the k-th line after the header
TextLines == SplitLines(trim(csvText))
HeaderNames == Headers(TextLines[1])
FieldsOf(k) == SplitComma(TextLines[k + 1])

\* the trimmed i-th field of the k-th data line, empty when the line has none
FieldAt(k, i) == IF i <= Len(FieldsOf(k)) THEN trim(FieldsOf(k)[i]) ELSE <<>>

\* a text without a comma or a line feed and without white space at its ends
IsTrimmedField(s) ==
    /\ \A i \in DOMAIN s : s[i] # "," /\ s[i] # "\n"
    /\ s # <<>> => s[1] \notin WhiteSpace /\ s[Len(s)] \notin WhiteSpace

\* column i is the last column of its name
LastOfName(i) == \A j \in DOMAIN HeaderNames : j > i => HeaderNames[j] # HeaderNames[i]

\* C18 as stated: every line after the header yields one record whose keys are
\* the trimmed header names and whose value for column i is the trimmed i-th
\* field of the line, empty when the line has no such field.
C18_RecordsAsStated ==
    csvCall = "parseCsv" =>
        /\ Len(csvRows) = Len(TextLines) - 1
        /\ \A k \in DOMAIN csvRows :
            /\ DOMAIN csvRows[k] = {HeaderNames[i] : i \in DOMAIN HeaderNames}
            /\ \A i \in DOMAIN HeaderNames : csvRows[k][HeaderNames[i]] = FieldAt(k, i)

\* C18: every line after the header of the trimmed text yields one record; its
\* keys are the trimmed header names; its value for a name is the trimmed
\* field of the last column of that name, empty when the line has no such
\* field; fields beyond the last column are dropped.
C18_LastColumnOfAName ==
    csvCall = "parseCsv" =>
        /\ Len(csvRows) = Len(TextLines) - 1
        /\ \A k \in DOMAIN csvRows :
            /\ DOMAIN csvRows[k] = {HeaderNames[i] : i \in DOMAIN HeaderNames}
            /\ \A h \in DOMAIN csvRows[k] : IsTrimmedField(h) /\ IsTrimmedField(csvRows[k][h])
            /\ \A i \in DOMAIN HeaderNames :
                LastOfName(i) => csvRows[k][HeaderNames[i]] = FieldAt(k, i)

\* a header with two columns of one name and a data line whose first field is
\* not the value of the record, which is that of the second, missing, field
C18_Witness ==
    /\ csvCall = "parseCsv"
    /\ Len(HeaderNames) = 2 /\ HeaderNames[1] = HeaderNames[2]
    /\ Len(csvRows) = 1
    /\ Len(FieldsOf(1)) = 1
    /\ FieldAt(1, 1) = <<"a">>
    /\ csvRows[1][HeaderNames[1]] = <<>>

-----------------------------------------------------------------------------
(* C19: empty inputs *)

\* h2h.json, transactions.json and records.json without entries
EmptyH2H == [managers |-> <<>>, pairs |-> <<>>]
EmptyTxn == [rows |-> <<>>]
EmptyRecords == RecordsDoc(<<>>)

\* C19: an empty input yields an empty result in every component: the parsers
\* on a text that is empty or blank, the season aggregator on no rows, the
\* head-to-head resolver on a document without managers and pairs, the
\* ownership tracker on no draft rows and no transactions, the record-breaker
\* normalizer on a document without years, the draft board on no picks.
C19_EmptyInputEmptyResult ==
    /\ csvCall = "parseCsv" /\ (\A i \in DOMAIN csvText : csvText[i] \in WhiteSpace)
            => csvRows = <<>>
    /\ csvCall = "parseCSV" /\ (\A i \in DOMAIN csvText : csvText[i] \in WhiteSpace)
            => csvDraft = <<>>
    /\ parseCsv(<<>>) = <<>> /\ parseCSV(<<>>) = <<>>
    /\ Table(<<>>, Null) = <<>> /\ Table(<<>>, EmptyH2H) = <<>>
    /\ HallOfFame(<<>>) = [titles |-> <<>>, bestAvg |-> <<>>]
    /\ FirstVisible(EmptyH2H.managers) = ""
    /\ H2HTable(EmptyH2H, "") = <<>> /\ VisibleTable(<<>>, "") = <<>>
    /\ SortedAdds(EmptyTxn.rows) = {<<>>}
    /\ Owned(<<>>, <<>>) = <<>>
    /\ Leaderboard(EmptyTxn, <<>>, "", 2) = <<>>
    /\ yearsList(EmptyRecords) = <<>>
    /\ AllTimeSections(EmptyRecords) = <<>>
    /\ \A md \in {"all_time", "head_to_head", "team_points", "team_stats"} :
        /\ SeasonalSections(EmptyRecords, md, "") = <<>>
        /\ TeamPointsExtraTables(EmptyRecords, md, "") = <<>>
    /\ GroupedByRoundSingle(<<>>) = <<>>
    /\ allManagers(<<>>) = <<>> /\ allManagers(ServerOf(<<>>)) = <<>>
    /\ ManagerRowsFlat("Al", ServerOf(<<>>)) = {<<>>}
    /\ PlayerSearchResults("Ka", ServerOf(<<>>)) = {<<>>}

\* parseCsv has been applied to the empty text
C19_Witness == csvCall = "parseCsv" /\ csvText = <<>> /\ csvRows = <<>>

-----------------------------------------------------------------------------
(* C20: a failed fetch *)

\* the record-breakers page with its fetch sure to settle
SpecRecFair == SpecRec /\ WF_vars(RecLoaded \/ RecLoadFailed)

\* C20: on the record-breakers page a fetch that has failed leads to a page
\* that is no longer in its loading state.
C20_FailureLeavesLoading == (recFetch = "failed") ~> ~RecShowsLoading

-----------------------------------------------------------------------------
(* league-finishes/page.tsx, ChampsRostersPage: champions and standings *)

\* a field that a JSON object has
Has(obj, field) == field \in DOMAIN obj

\* the entries of champion_rosters.json
ChampEntries ==
    {[season |-> 2024, manager |-> "Al", roster |-> <<[name |-> "Kane", position |-> "RB"]>>],
     [season |-> 2023, manager |-> "Bo", roster |-> <<[name |-> "Mixon", position |-> "RB"]>>],
     [season |-> 2022, manager |-> "Cy", roster |-> <<>>]}

\* the entries of standings.json: two seasons, an entry whose league has no
\* standings and an entry without league
StandingEntries ==
    {[league |-> [season |-> 2024, standings |-> <<[rank |-> 1, team |-> "Al"],
                                                   [rank |-> 2, team |-> "Bo"]>>]],
     [league |-> [season |-> 2023, standings |-> <<[rank |-> 1, team |-> "Bo"]>>]],
     [league |-> [season |-> 2022]],
     [season |-> 2022]}

\* champion_rosters.json: an array, an object with champions, an object without
RosterDocs ==
    {[kind |-> "array", items |-> cs] : cs \in SeqsUpTo(ChampEntries, MaxChamps)}
    \cup {[kind |-> "object", champions |-> cs] : cs \in SeqsUpTo(ChampEntries, MaxChamps)}
    \cup {[kind |-> "object"]}

\* standings.json: an array, an object with seasons, an object that is one
\* season, an object that has neither seasons nor league
StandingsDocs ==
    {[kind |-> "array", items |-> ss] : ss \in SeqsUpTo(StandingEntries, MaxChamps)}
    \cup {[kind |-> "object", seasons |-> ss] : ss \in SeqsUpTo(StandingEntries, MaxChamps)}
    \cup {[kind |-> "object", league |-> e.league] : e \in {x \in StandingEntries : Has(x, "league")}}
    \cup {[kind |-> "object"]}

\* lines 69-71
ChampsOf(rostersRaw) ==
    IF rostersRaw.kind = "array" THEN rostersRaw.items
    ELSE IF Has(rostersRaw, "champions") THEN rostersRaw.champions
    ELSE <<>>

\* lines 73-77
StandingsDataOf(standingsRaw) ==
    IF standingsRaw.kind = "array" THEN standingsRaw.items
    ELSE IF Has(standingsRaw, "seasons") THEN standingsRaw.seasons
    ELSE <<standingsRaw>>

\* champs.sort((a, b) => b.season - a.season), line 79
SortedChamps(cs) ==
    Sort(cs, [i \in DOMAIN cs, j \in DOMAIN cs |-> cs[j].season - cs[i].season < 0])

\* line 80: the comparator reads league.season of each entry it is called
\* with, and it is called with every entry of a list of two or more
SortThrows(ss) == Len(ss) >= 2 /\ \E i \in DOMAIN ss : ~Has(ss[i], "league")

\* standingsData.sort((a, b) => b.league.season - a.league.season), line 80
SortedStandings(ss) ==
    IF Len(ss) < 2 THEN ss
    ELSE Sort(ss, [i \in DOMAIN ss, j \in DOMAIN ss |->
                        ss[j].league.season - ss[i].league.season < 0])

\* lines 93-111 and 155-245: what the component renders.  The options of the
\* year selector read league.season of every entry (line 162), the table
\* reads league.standings of the entry of the selected year (line 187)
View(cs, ss, y, isLoading, error) ==
    IF isLoading THEN [kind |-> "loading"]
    ELSE IF error # Null THEN [kind |-> "error"]
    ELSE IF \E i \in DOMAIN ss : ~Has(ss[i], "league") THEN [kind |-> "crashed"]
    ELSE
        LET si == First({i \in DOMAIN ss : ss[i].league.season = y})
            ci == First({i \in DOMAIN cs : cs[i].season = y})
        IN  IF si # 0 /\ ~Has(ss[si].league, "standings") THEN [kind |-> "crashed"]
            ELSE [kind |-> "page",
                  options |-> [i \in DOMAIN ss |-> ss[i].league.season],
                  table |-> IF si = 0 THEN <<>> ELSE ss[si].league.standings,
                  hasTable |-> si # 0,
                  roster |-> IF ci = 0 THEN <<>> ELSE cs[ci].roster,
                  hasRoster |-> ci # 0]

\* the load effect, lines 55-90: both responses are ok and both bodies are JSON
CrLoaded ==
    /\ crLoading
    /\ \E rostersRaw \in RosterDocs, standingsRaw \in StandingsDocs :
        LET champs == SortedChamps(ChampsOf(rostersRaw))
            standingsData == StandingsDataOf(standingsRaw)
        IN  IF SortThrows(standingsData)
            THEN /\ crErr' = Error("Cannot read properties of undefined (reading 'season')")
                 /\ UNCHANGED <<champions, standings, selectedYear>>
            ELSE /\ champions' = champs
                 /\ standings' = SortedStandings(standingsData)
                 /\ selectedYear' = IF Len(champs) # 0 THEN champs[1].season ELSE selectedYear
                 /\ crErr' = crErr
    /\ crLoading' = FALSE
    /\ crFetch' = [rosters |-> "ok", standings |-> "ok"]
    /\ crView' = View(champions', standings', selectedYear', crLoading', crErr')
    /\ UNCHANGED <<rhVars, hhVars, txVars, recVars, dhVars, csvVars>>

\* the load effect, lines 57-66 and 85-89: a fetch rejects, a response is not
\* ok or a body is no JSON, for one file or for both
CrLoadFailed ==
    /\ crLoading
    /\ \E ro \in {"ok", "failed"}, so \in {"ok", "failed"} :
        /\ ro = "failed" \/ so = "failed"
        /\ crFetch' = [rosters |-> ro, standings |-> so]
    /\ \E msg \in {"Failed to load data files.", "Failed to fetch"} : crErr' = Error(msg)
    /\ crLoading' = FALSE
    /\ crView' = View(champions, standings, selectedYear, crLoading', crErr')
    /\ UNCHANGED <<champions, standings, selectedYear,
                   rhVars, hhVars, txVars, recVars, dhVars, csvVars>>

\* the year selector, lines 157-168
CrSelectYear ==
    /\ crView.kind = "page"
    /\ \E k \in DOMAIN crView.options :
        /\ crView.options[k] # selectedYear
        /\ selectedYear' = crView.options[k]
    /\ crView' = View(champions, standings, selectedYear', crLoading, crErr)
    /\ UNCHANGED <<champions, standings, crLoading, crErr, crFetch,
                   rhVars, hhVars, txVars, recVars, dhVars, csvVars>>

\* the page after its first render: the load effect has started
CrStarted ==
    /\ champions = <<>>
    /\ standings = <<>>
    /\ selectedYear = NoYear
    /\ crLoading = TRUE
    /\ crErr = Null
    /\ crFetch = [rosters |-> "pending", standings |-> "pending"]
    /\ crView = [kind |-> "loading"]

InitChamps == RhIdleOff /\ HhIdle /\ TxIdle /\ RecIdle /\ DhIdle /\ CsvIdle /\ CrStarted
NextChamps == CrLoaded \/ CrLoadFailed \/ CrSelectYear
SpecChamps == InitChamps /\ [][NextChamps]_vars

-----------------------------------------------------------------------------
(* C21: the failure of one of two files *)

\* C21: on the league-finishes page, when the rosters file has failed and the
\* standings file has loaded, the page with the standings is shown.
C21_StandingsShownWithoutRosters ==
    crFetch.rosters = "failed" /\ crFetch.standings = "ok" => crView.kind = "page"

-----------------------------------------------------------------------------
(* C22: documents that lack a field *)

\* C22: on the league-finishes page, once both documents have been fetched and
\* parsed, whatever fields they lack, no operation fails: the page is rendered,
\* with an empty table where the data is absent.
C22_AbsentFieldsGiveEmpty ==
    crFetch.rosters = "ok" /\ crFetch.standings = "ok" => crView.kind = "page"

-----------------------------------------------------------------------------
(* C23: the order of the two fetches of the roll-of-honour page *)

\* a row of the career table with its winPct put aside
WithoutWinPct(t) == [t EXCEPT !.winPct = Frac(0, 1)]

\* both fetches of the roll-of-honour page have resolved
BothResolved == rhFetch.finishes = "done" /\ rhFetch.h2h = "done"

\* C23: once both fetches have resolved the career table is that of the rows
\* and the head-to-head document, whichever came first; and the arrival of the
\* head-to-head document leaves the rows of the table in place and changes no
\* field of a row but winPct.
C23_FetchOrderIndependent ==
    /\ [](BothResolved => table = Table(rows, h2hData))
    /\ [][H2HLoaded =>
            /\ Len(table') = Len(table)
            /\ \A i \in DOMAIN table : WithoutWinPct(table'[i]) = WithoutWinPct(table[i])]_vars

\* both have resolved, the table has two managers or more and the
\* head-to-head document has given one of them a winPct
C23_Witness ==
    /\ BothResolved
    /\ Len(table) >= 2
    /\ \E i \in DOMAIN table : ~FracEq(table[i].winPct, Frac(0, 1))

-----------------------------------------------------------------------------
(* C24, C25: overlapping season fetches of the draft-history page *)

\* C24: once no season fetch is in flight and none has failed, the rows of
\* the single-season view are those of the file of the selected year.
C24_NoStaleSeason ==
    manifest # Null /\ dhYear # NoYear /\ dhFetch.season = <<>> /\ dhErr = Null
        => dhRows = FileRows(draftFiles, dhYear)

\* C25: loading is true while a season fetch is in flight and false once
\* none is.
C25_LoadingWhileInFlight ==
    /\ dhFetch.season # <<>> => dhLoading
    /\ dhFetch.season = <<>> => ~dhLoading

-----------------------------------------------------------------------------
(* C26: the selected manager of the head-to-head page *)

\* mgr is the default selection for the roster: its first manager that is not
\* hidden, none when all are hidden
IsDefaultOf(mgr, managers) ==
    \/ /\ \A k \in DOMAIN managers : managers[k] \in HIDDEN
       /\ mgr = ""
    \/ \E k \in DOMAIN managers :
        /\ managers[k] \notin HIDDEN
        /\ \A j \in 1..(k - 1) : managers[j] \in HIDDEN
        /\ mgr = managers[k]

\* C26: the selected manager is never hidden; the load selects the first
\* roster manager that is not hidden, none when all are hidden; a selection
\* made with the selector is a roster manager that is not hidden.
C26_SelectedNeverHidden ==
    /\ [](manager \notin HIDDEN)
    /\ [][HhLoaded => IsDefaultOf(manager', data'.managers)]_vars
    /\ [][SelectManager =>
            \E k \in DOMAIN data.managers :
                manager' = data.managers[k] /\ manager' \notin HIDDEN]_vars

\* the roster starts with a hidden manager and the selection is the next one
C26_Witness ==
    /\ data # Null
    /\ Len(data.managers) >= 2
    /\ data.managers[1] \in HIDDEN
    /\ manager = data.managers[2]

-----------------------------------------------------------------------------
(* C27: the sections of team-points mode *)

\* C27: in team-points mode no section of the extra team-points tables is
\* also in the seasonal sections list.
C27_NoSectionTwice ==
    mode = "team_points" =>
        \A i \in DOMAIN seasonalSections, j \in DOMAIN teamPointsExtraTables :
            seasonalSections[i].section # teamPointsExtraTables[j].section

-----------------------------------------------------------------------------
(* C28: the fields of a ManagerTotals entry *)

\* C28: every entry of the career table has podiums = gold + silver + bronze,
\* points = 3 * gold + 2 * silver + bronze, one season or more, a playoffsMade
\* between 0 and seasons, and an avgFinish of 1 or more when the places of
\* all its counted rows are whole numbers.
C28_TotalsConsistent ==
    \A i \in DOMAIN table :
        LET t == table[i]
        IN  /\ t.podiums = t.gold + t.silver + t.bronze
            /\ t.points = 3 * t.gold + 2 * t.silver + t.bronze
            /\ t.seasons >= 1
            /\ 0 <= t.playoffsMade /\ t.playoffsMade <= t.seasons
            /\ (\A k \in ValidOf(t.manager) : WholePlace(rows[k]))
                    => ~FracLt(t.avgFinish, Frac(1, 1))

\* a manager with a first, a second and a third place over two seasons
C28_Witness ==
    \E i \in DOMAIN table :
        /\ table[i].gold = 1 /\ table[i].silver = 1 /\ table[i].bronze = 1
        /\ table[i].podiums = 3
        /\ table[i].seasons = 2

-----------------------------------------------------------------------------
(* C29: the fields of an OwnershipEntry *)

\* C29: every entry has total = drafted + adds; its owners are as many as its
\* adds plus its draft rows that record a manager, so at most total; every
\* owner of type drafted is before every owner of type waiver or trade.
C29_EntryConsistent ==
    Tracked =>
        \A i \in DOMAIN owned :
            LET x == owned[i]
            IN  /\ x.total = x.drafted + x.adds
                /\ Len(x.owned) = x.adds + Cardinality(DraftWithManager(x.player))
                /\ Len(x.owned) <= x.total
                /\ \A p \in DOMAIN x.owned, q \in DOMAIN x.owned :
                        x.owned[p].type = "drafted" /\ x.owned[q].type # "drafted" => p < q

\* a player with a draft row without manager, a drafted owner and an add
C29_Witness ==
    /\ Tracked
    /\ \E i \in DOMAIN owned :
        /\ owned[i].drafted = 2
        /\ owned[i].adds >= 1
        /\ Len(owned[i].owned) = 1 + owned[i].adds
        /\ owned[i].owned[1].type = "drafted"

-----------------------------------------------------------------------------
(* C30: the minimum-total filter and the order of the listed players *)

\* C30: minPickups is at least 2 in every state, every listed player has a
\* total of at least minPickups, so of at least 2, and the listed players are
\* in the order of total descending, then player name ascending.
C30_MinTotalAndOrder ==
    /\ minPickups >= 2
    /\ \A i \in DOMAIN leaderboard :
        /\ leaderboard[i].total >= minPickups
        /\ leaderboard[i].total >= 2
    /\ \A i \in DOMAIN leaderboard, j \in DOMAIN leaderboard :
        i < j =>
            \/ leaderboard[i].total > leaderboard[j].total
            \/ /\ leaderboard[i].total = leaderboard[j].total
               /\ localeCompare(leaderboard[i].player, leaderboard[j].player) < 0

\* the input raised the minimum to 3: a player with total 3 is listed and a
\* player with total 2 is not
C30_Witness ==
    /\ Tracked
    /\ query = ""
    /\ minPickups = 3
    /\ Len(leaderboard) = 1
    /\ leaderboard[1].total = 3
    /\ \E i \in DOMAIN owned : owned[i].total = 2

====
